---- MODULE Spec2Model ----
(***************************************************************************)
(* A model of factorylm's PLC connection manager                           *)
(* (services/plc-modbus/src/factorylm_plc/connection_manager.py).          *)
(*                                                                         *)
(* The manager wraps a protocol client.  The client and the caller's       *)
(* closure are the environment: connect() returns true, returns false or   *)
(* raises; the closure returns, raises ConnectionError, raises another     *)
(* IOError, raises a non-retryable error or (writes) returns false; the    *)
(* link may drop at any moment.  Every step of ensure_connected,           *)
(* read_with_retry and write_with_retry between two such calls is one      *)
(* action; pc is the position in the code and obs counts what one logical  *)
(* operation did (calls made, sleeps slept).                               *)
(***************************************************************************)
EXTENDS Integers, Sequences, FiniteSets, TLC

\* ------------------------------------------------------------------ bounds

\* retry_count is drawn from 0..MaxRetry.
MaxRetry == 3
\* A caller starts a new operation only while consecutive_failures is at most
\* this: it bounds the counter, which the code never bounds.
MaxFailures == 2
\* _calculate_backoff is examined for every counter in 0..MaxBackoffN.
MaxBackoffN == 8
\* retry_count of a manager used in a with-block is drawn from
\* 0..MaxScopeRetry.
MaxScopeRetry == 2
\* At most MaxMockOps reads, writes and helper calls are made on one mock.
MaxMockOps == 3
\* At most MaxClients clients are made by the factory in one process.
MaxClients == 1
\* The service connects at most MaxSessions times and issues at most
\* MaxWrites coil writes.
MaxSessions == 2
MaxWrites == 2
\* A scan covers suffixes within 1..MaxSuffix with at most MaxWorkers
\* worker threads.
MaxSuffix == 3
MaxWorkers == 2

\* --------------------------------------------------------------- constants

MAX_BACKOFF_DELAY == 30
\* The exponent cap of _calculate_backoff.
MAX_BACKOFF_EXP == 5

\* The base delays (whole seconds) a manager is built with.
RetryDelays == {1, 3}

\* Exceptions client.connect() may raise (any Exception is caught alike).
ConnectExceptions == {"OSError: connect"}
\* The exceptions the manager itself builds.
UnableToConnect == "ConnectionError: Unable to connect to PLC"
ConnectionLost == "ConnectionError: Connection lost"
WriteReturnedFalse == "IOError: Write operation returned False"
\* Exceptions of the closure.
FuncConnectionError == "ConnectionError: closure"
FuncIOError == "IOError: closure"
FuncValueError == "ValueError: closure"
NoAttemptError == "IOError: Operation failed after all retries"
NoError == "None"

ConnectionErrors == {UnableToConnect, FuncConnectionError}
IOErrors == {FuncIOError, WriteReturnedFalse, NoAttemptError}

RetryOps == {"read_with_retry", "write_with_retry"}

VARIABLES
    retry_count,            \* self.retry_count
    retry_delay,            \* self.retry_delay
    auto_reconnect,         \* self.auto_reconnect
    connected,              \* self._connected
    consecutive_failures,   \* self._consecutive_failures
    last_error,             \* self._last_error
    client_up,              \* what self.client.is_connected() answers
    op,                     \* the public method the caller is in
    pc,                     \* the position inside it
    attempt,                \* the loop variable of read/write_with_retry
    ec_attempt,             \* the loop variable of ensure_connected
    ec_ret,                 \* the value ensure_connected returns
    exc,                    \* the exception in flight
    result,                 \* what the public method gave its caller
    ev,                     \* the last step the program took
    obs,                    \* what the current operation did so far
    scope,                  \* whether a with-block on the manager is open
    m_connected,            \* MockPLC._connected
    m_regs,                 \* MockPLC._registers
    m_coils,                \* MockPLC._coils
    m_obs,                  \* what the last call on the mock did
    m_ops,                  \* the calls made on the mock so far
    f_env,                  \* os.environ, as create_plc_client reads it
    f_clients,              \* the clients and managers constructed so far
    f_out,                  \* what the last call of the factory gave
    s_made,                 \* the clients PLCConnectionService made: session up?
    s_client,               \* self._client: which of them, 0 for None
    s_flag,                 \* self._connected
    s_seen,                 \* self._last_seen is set
    s_log,                  \* the write_coil calls made on clients
    s_out,                  \* what the last call of the service gave
    sc_cfg,                 \* the scan asked for: start, end, max_workers
    sc_phase,               \* where get_online_devices is
    sc_task,                \* the future of each candidate address
    sc_fate,                \* what the network did to each probe
    sc_res,                 \* the ScanResult each probe returned
    sc_results,             \* the list `results` of scan_subnet
    sc_out                  \* what get_online_devices returned

cfg == <<retry_count, retry_delay, auto_reconnect>>
mgr == <<connected, consecutive_failures, last_error>>
ctl == <<op, pc, attempt, ec_attempt, ec_ret, exc, result>>
\* What no method of the manager touches when called on its own.
mock == <<m_connected, m_regs, m_coils, m_obs, m_ops>>
factory == <<f_env, f_clients, f_out>>
\* What no method of the manager or the mock touches.
service == <<s_made, s_client, s_flag, s_seen, s_log, s_out>>
scanner == <<sc_cfg, sc_phase, sc_task, sc_fate, sc_res, sc_results, sc_out>>
beyond == <<factory, service, scanner>>
others == <<scope, mock, beyond>>
manager == <<cfg, mgr, client_up, ctl, ev, obs>>
not_factory == <<manager, scope, mock, service, scanner>>
not_service == <<manager, scope, mock, factory, scanner>>
not_scanner == <<manager, scope, mock, factory, service>>
vars == <<manager, others>>

\* ----------------------------------------------------------- pure helpers

Min(a, b) == IF a <= b THEN a ELSE b

RECURSIVE Pow2(_)
Pow2(n) == IF n = 0 THEN 1 ELSE 2 * Pow2(n - 1)

\* _calculate_backoff without the cap at MAX_BACKOFF_DELAY.
CalculateBackoff_NoCap(delay, n) ==
    delay * Pow2(Min(n, MAX_BACKOFF_EXP))

\* _calculate_backoff, as a function of the base delay and the counter.
CalculateBackoff(delay, n) ==
    Min(delay * Pow2(Min(n, MAX_BACKOFF_EXP)), MAX_BACKOFF_DELAY)

\* str(e) of the exceptions _last_error can hold: the message without the
\* type.
ErrorMessage(e) ==
    CASE e = ConnectionLost -> "Connection lost"
      [] e = WriteReturnedFalse -> "Write operation returned False"
      [] e = FuncIOError -> "closure"
      [] e \in ConnectExceptions -> "connect"

\* is_connected reading only the cached flag.
IsConnected_Cached == connected

\* The is_connected property.
IsConnected == connected /\ client_up

\* get_status()
GetStatus ==
    [connected |-> IsConnected,
     consecutive_failures |-> consecutive_failures,
     last_error |-> IF last_error # NoError THEN ErrorMessage(last_error)
                    ELSE NoError,
     auto_reconnect |-> auto_reconnect,
     retry_count |-> retry_count,
     retry_delay |-> retry_delay]

\* The record of a fresh operation, started with the counter and error as
\* they are now.
FreshObs ==
    [cf0 |-> consecutive_failures, le0 |-> last_error,
     saw_up |-> FALSE, ensures |-> 0, ensure_fails |-> 0,
     connects |-> 0, connect_fails |-> 0, last_conn |-> "none",
     funcs |-> 0, func_fails |-> 0, sleeps |-> 0, last_delay |-> 0,
     disconnects |-> 0, status |-> <<>>]

\* ------------------------------------------------------------------- init

\* A manager as __init__ leaves it, with a retry_count of at most n.
MgrInit(n) ==
    /\ retry_count \in 0..n
    /\ retry_delay \in RetryDelays
    /\ auto_reconnect \in BOOLEAN
    /\ connected = FALSE
    /\ consecutive_failures = 0
    /\ last_error = NoError
    /\ client_up \in BOOLEAN
    /\ op = "none"
    /\ pc = "idle"
    /\ attempt = 0
    /\ ec_attempt = 0
    /\ ec_ret = FALSE
    /\ exc = NoError
    /\ result = "none"
    /\ ev = "none"
    /\ obs = FreshObs
    /\ scope = "out"

\* ---------------------------------------------------------------- MockPLC
\* services/plc-modbus/src/factorylm_plc/mock_plc.py

REGISTER_MOTOR_SPEED == 100
REGISTER_MOTOR_CURRENT == 101
REGISTER_TEMPERATURE == 102
REGISTER_PRESSURE == 103
REGISTER_CONVEYOR_SPEED == 104
REGISTER_ERROR_CODE == 105

COIL_MOTOR_RUNNING == 0
COIL_MOTOR_STOPPED == 1
COIL_FAULT_ALARM == 2
COIL_CONVEYOR_RUNNING == 3
COIL_SENSOR_1 == 4
COIL_SENSOR_2 == 5
COIL_E_STOP == 6

\* The bounds of the simulated temperature (raw, tenths of a degree).
TEMP_AMBIENT == 250
TEMP_MAX == 800
\* The pressure a new mock shows.
PRESSURE_DEFAULT == 100
\* The top of the speed range of start_motor and start_conveyor.
SPEED_MAX == 100

Max(a, b) == IF a >= b THEN a ELSE b

\* The draws of random.randint(-5, 5), random.randint(1, 3) and
\* random.randint(1, 5) that are followed: the ends of each range, and the
\* middle of the first.
NoiseDraws == {-5, 0, 5}
HeatDraws == {1, 3}
CoolDraws == {1, 5}

\* The registers and coils of MockPLC() with no initial_state.
DefaultRegisters ==
    (REGISTER_MOTOR_SPEED :> 0) @@ (REGISTER_MOTOR_CURRENT :> 0)
    @@ (REGISTER_TEMPERATURE :> TEMP_AMBIENT)
    @@ (REGISTER_PRESSURE :> PRESSURE_DEFAULT)
    @@ (REGISTER_CONVEYOR_SPEED :> 0) @@ (REGISTER_ERROR_CODE :> 0)

DefaultCoils ==
    (COIL_MOTOR_RUNNING :> FALSE) @@ (COIL_MOTOR_STOPPED :> TRUE)
    @@ (COIL_FAULT_ALARM :> FALSE) @@ (COIL_CONVEYOR_RUNNING :> FALSE)
    @@ (COIL_SENSOR_1 :> FALSE) @@ (COIL_SENSOR_2 :> FALSE)
    @@ (COIL_E_STOP :> FALSE)

\* The temperatures a mock is started at (initial_state): ambient, and
\* near the ceiling.
InitTemperatures == {250, 798}

\* Inputs of the calls made on the mock.
WriteRegisterAddresses == {REGISTER_MOTOR_SPEED, REGISTER_MOTOR_CURRENT}
WriteRegisterValues == {0, 50}
WriteCoilAddresses ==
    {COIL_MOTOR_RUNNING, COIL_MOTOR_STOPPED, COIL_CONVEYOR_RUNNING, COIL_E_STOP}
StartSpeeds == {0, 50, 150}

\* str() of what a call returned.
PyBool(b) == IF b THEN "True" ELSE "False"

NoCall ==
    [op |-> "none", raised |-> FALSE, steps |-> 0, turned_off |-> FALSE,
     prev_off |-> FALSE, ret |-> "None", tick |-> FALSE, prev |-> "none"]

\* MockPLC(initial_state): not connected, the defaults overridden.
MockInit(temps) ==
    /\ m_connected = FALSE
    /\ \E t \in temps :
          m_regs = [DefaultRegisters EXCEPT ![REGISTER_TEMPERATURE] = t]
    /\ m_coils = DefaultCoils
    /\ m_obs = NoCall
    /\ m_ops = 0

\* --------------------------------------------------------- client factory
\* services/plc-modbus/src/factorylm_plc/factory.py

\* Text is a tuple of characters; None is the value that is no text.
None == <<"None">>

UpperCase == <<"A", "B", "C", "D", "E", "F", "G", "H", "I", "J", "K", "L", "M",
               "N", "O", "P", "Q", "R", "S", "T", "U", "V", "W", "X", "Y", "Z">>
LowerCase == <<"a", "b", "c", "d", "e", "f", "g", "h", "i", "j", "k", "l", "m",
               "n", "o", "p", "q", "r", "s", "t", "u", "v", "w", "x", "y", "z">>
Digits == {"0", "1", "2", "3", "4", "5", "6", "7", "8", "9"}
Whitespace == {" "}

\* str.lower()
LowerChar(c) ==
    IF \E i \in DOMAIN UpperCase : UpperCase[i] = c
    THEN LowerCase[CHOOSE i \in DOMAIN UpperCase : UpperCase[i] = c]
    ELSE c

Lower(text) == [i \in DOMAIN text |-> LowerChar(text[i])]

\* str.strip()
RECURSIVE StripLeft(_)
StripLeft(text) ==
    IF text # <<>> /\ Head(text) \in Whitespace THEN StripLeft(Tail(text))
    ELSE text

RECURSIVE StripRight(_)
StripRight(text) ==
    IF text # <<>> /\ text[Len(text)] \in Whitespace
    THEN StripRight(SubSeq(text, 1, Len(text) - 1))
    ELSE text

Strip(text) == StripRight(StripLeft(text))

\* int(text) and float(text) raise ValueError on text that is no number.
ParsesInt(text) ==
    LET t == Strip(text) IN t # <<>> /\ \A i \in DOMAIN t : t[i] \in Digits

ParsesFloat(text) ==
    LET t == Strip(text) IN
    /\ \E i \in DOMAIN t : t[i] \in Digits
    /\ \A i \in DOMAIN t : t[i] \in Digits \cup {"."}
    /\ Cardinality({i \in DOMAIN t : t[i] = "."}) <= 1

\* The kinds create_plc_client knows.
K_mock == <<"m", "o", "c", "k">>
K_micro820 == <<"m", "i", "c", "r", "o", "8", "2", "0">>
K_factoryio == <<"f", "a", "c", "t", "o", "r", "y", "i", "o">>
K_factory_io == <<"f", "a", "c", "t", "o", "r", "y", "_", "i", "o">>
K_factoryio_micro820 == K_factoryio \o <<"_">> \o K_micro820
RecognisedKinds ==
    {K_mock, K_micro820, K_factoryio_micro820, K_factoryio, K_factory_io}
\* The kinds the error message lists.
ValidTypes == <<K_mock, K_micro820, K_factoryio_micro820>>

\* Kinds a caller passes or PLC_TYPE holds.
K_bogus == <<"p", "l", "c">>
K_Mock_padded == <<" ", "M", "o", "c", "k", " ">>
K_FactoryIO == <<"F", "a", "c", "t", "o", "r", "y", "I", "O">>
K_mock_typo == <<"m", "o", "c", "k", "s">>
KindArgs ==
    {None, K_mock, K_Mock_padded, K_micro820, K_FactoryIO, K_bogus,
     K_mock_typo}

\* What the environment variables hold; None when unset.
T_true == <<"t", "r", "u", "e">>
T_True == <<"T", "r", "u", "e">>
T_false == <<"f", "a", "l", "s", "e">>
T_502 == <<"5", "0", "2">>
T_5 == <<"5">>
T_3 == <<"3">>
T_junk == <<"a", "b", "c">>
NoEnvironment ==
    [PLC_TYPE |-> None, USE_MOCK_PLC |-> None, PLC_PORT |-> None,
     PLC_TIMEOUT |-> None, PLC_RETRY_COUNT |-> None]

\* The environments followed: nothing set, and one or two variables set.
Environments ==
    {NoEnvironment,
     [NoEnvironment EXCEPT !.PLC_TYPE = K_micro820],
     [NoEnvironment EXCEPT !.PLC_TYPE = K_bogus],
     [NoEnvironment EXCEPT !.USE_MOCK_PLC = T_false],
     [NoEnvironment EXCEPT !.USE_MOCK_PLC = T_True],
     [NoEnvironment EXCEPT !.USE_MOCK_PLC = T_True, !.PLC_TYPE = K_bogus],
     [NoEnvironment EXCEPT !.USE_MOCK_PLC = T_True, !.PLC_PORT = T_junk],
     [NoEnvironment EXCEPT !.PLC_PORT = T_junk],
     [NoEnvironment EXCEPT !.PLC_TIMEOUT = T_junk],
     [NoEnvironment EXCEPT !.PLC_RETRY_COUNT = T_junk]}

\* os.getenv(name, default)
Getenv(value, default) == IF value = None THEN default ELSE value

\* `x or y` on text: None and "" are false.
TextOr(x, y) == IF x = None \/ x = <<>> THEN y ELSE x

\* The port, timeout and retries a caller passes: none of them, one of
\* them, all of them; 0 stands for None and 0, both false in `x or y`.
NumberArgs == {<<0, 0, 0>>, <<502, 0, 0>>, <<0, 5, 0>>, <<0, 0, 3>>, <<502, 5, 3>>}

\* The client classes, as constructed: none of them connects.
NewMockPLC_Dials == [class |-> "MockPLC", connected |-> TRUE, dialled |-> TRUE]
NewMockPLC == [class |-> "MockPLC", connected |-> FALSE, dialled |-> FALSE]
NewMicro820PLC ==
    [class |-> "Micro820PLC", connected |-> FALSE, dialled |-> FALSE]
NewFactoryIOMicro820 ==
    [NewMicro820PLC EXCEPT !.class = "FactoryIOMicro820"]

NoClient == [class |-> "None", connected |-> FALSE, dialled |-> FALSE]

\* The messages of the errors raised: "Unknown PLC type: {plc_type}. Valid
\* types: mock, micro820, factoryio_micro820", and what int() and float()
\* say.
NoMessage == [text |-> "", plc_type |-> <<>>, valid |-> <<>>]
InvalidLiteral == [NoMessage EXCEPT !.text = "invalid literal"]
UnknownPlcType(kind) ==
    [text |-> "Unknown PLC type", plc_type |-> kind, valid |-> ValidTypes]

\* create_plc_client that lets USE_MOCK_PLC override nothing.
CreatePlcClient_NoOverride(plc_type, port, timeout, retries, env) ==
    LET kind == Strip(Lower(TextOr(plc_type, Getenv(env.PLC_TYPE, K_mock)))) IN
    IF ~(/\ port # 0 \/ ParsesInt(Getenv(env.PLC_PORT, T_502))
         /\ timeout # 0 \/ ParsesFloat(Getenv(env.PLC_TIMEOUT, T_5))
         /\ retries # 0 \/ ParsesInt(Getenv(env.PLC_RETRY_COUNT, T_3)))
    THEN [raised |-> "ValueError", message |-> InvalidLiteral,
          client |-> NoClient]
    ELSE IF kind = K_mock
    THEN [raised |-> "None", message |-> NoMessage, client |-> NewMockPLC]
    ELSE IF kind = K_micro820
    THEN [raised |-> "None", message |-> NoMessage, client |-> NewMicro820PLC]
    ELSE IF kind \in {K_factoryio_micro820, K_factoryio, K_factory_io}
    THEN [raised |-> "None", message |-> NoMessage, client |-> NewFactoryIOMicro820]
    ELSE [raised |-> "ValueError", message |-> UnknownPlcType(kind),
          client |-> NoClient]

\* create_plc_client, in the order of its statements: the defaults from
\* the environment (int() and float() of what is set), the mock override,
\* the normalisation, the choice of class.
CreatePlcClient(plc_type, port, timeout, retries, env) ==
    LET from_env == TextOr(plc_type, Getenv(env.PLC_TYPE, K_mock))
        use_mock == Lower(Getenv(env.USE_MOCK_PLC, T_false)) = T_true
        kind == Strip(Lower(IF use_mock THEN K_mock ELSE from_env))
    IN
    IF ~(/\ port # 0 \/ ParsesInt(Getenv(env.PLC_PORT, T_502))
         /\ timeout # 0 \/ ParsesFloat(Getenv(env.PLC_TIMEOUT, T_5))
         /\ retries # 0 \/ ParsesInt(Getenv(env.PLC_RETRY_COUNT, T_3)))
    THEN [raised |-> "ValueError", message |-> InvalidLiteral,
          client |-> NoClient]
    ELSE IF kind = K_mock
    THEN [raised |-> "None", message |-> NoMessage, client |-> NewMockPLC]
    ELSE IF kind = K_micro820
    THEN [raised |-> "None", message |-> NoMessage, client |-> NewMicro820PLC]
    ELSE IF kind \in {K_factoryio_micro820, K_factoryio, K_factory_io}
    THEN [raised |-> "None", message |-> NoMessage, client |-> NewFactoryIOMicro820]
    ELSE [raised |-> "ValueError", message |-> UnknownPlcType(kind),
          client |-> NoClient]

\* create_plc_client on every input followed.
CreatePlcClientOn ==
    [plc_type \in KindArgs, numbers \in NumberArgs, env \in Environments |->
        CreatePlcClient(plc_type, numbers[1], numbers[2], numbers[3], env)]

NoFactoryCall ==
    [op |-> "none", plc_type |-> None, port |-> 0, timeout |-> 0, retries |-> 0,
     raised |-> "None", message |-> NoMessage, made |-> 0]

\* A process in which the factory has not been called.
FactoryInit(envs) ==
    /\ f_env \in envs
    /\ f_clients = <<>>
    /\ f_out = NoFactoryCall

\* ------------------------------------------------- PLCConnectionService
\* services/plc-modbus/backend/services/plc_connection.py

\* WRITABLE_COILS = list(range(0, 7)) + [15, 16, 17]
WRITABLE_COILS == (0..6) \cup {15, 16, 17}

\* The coil addresses a caller asks to write: ends and neighbours of the
\* writable ranges, and the inputs between them.
CoilAddresses == {0, 6, 7, 8, 14, 15, 17, 18}

NoMessageS == [text |-> "", address |-> -1, writable |-> {}]
NoServiceCall ==
    [op |-> "none", address |-> -1, value |-> FALSE, was_connected |-> FALSE,
     raised |-> "None", status |-> 0, message |-> NoMessageS, calls |-> <<>>]

\* The singleton as constructed at import: no client, not connected.
ServiceInit ==
    /\ s_made = <<>>
    /\ s_client = 0
    /\ s_flag = FALSE
    /\ s_seen = FALSE
    /\ s_log = <<>>
    /\ s_out = NoServiceCall

\* ------------------------------------------------------- NetworkScanner
\* services/plc-modbus/backend/services/network_scanner.py

\* The subnet scanned and the port probed.
Subnet == "10.0.0"
ScanPort == 502

\* f"{subnet}.{i}"
Ip(i) == <<Subnet, i>>

\* What errors say: str(e).
M_TimedOut == <<"T", "i", "m", "e", "d", " ", "o", "u", "t">>
M_Unreachable == <<"u", "n", "r", "e", "a", "c", "h", "a", "b", "l", "e">>
M_BadHost == <<"b", "a", "d", " ", "h", "o", "s", "t">>
P_timed_out == <<"t", "i", "m", "e", "d", " ", "o", "u", "t">>

\* pattern in text
Contains(text, pattern) ==
    \E i \in 1..(Len(text) - Len(pattern) + 1) :
       SubSeq(text, i, i + Len(pattern) - 1) = pattern

\* What the network does to one probe: client.connect() answers True
\* after some milliseconds (and close() then works or raises), answers
\* False, or the constructor or connect() raises.
NoFate == [kind |-> "none", ms |-> 0, text |-> <<>>, close |-> "ok"]
Connected(ms) == [NoFate EXCEPT !.kind = "True", !.ms = ms]
Raises(kind, text) == [NoFate EXCEPT !.kind = kind, !.text = text]
ProbeFates ==
    {Connected(10), Connected(20),
     [Connected(10) EXCEPT !.close = "OSError", !.text = M_BadHost],
     [NoFate EXCEPT !.kind = "False"],
     Raises("TimeoutError", M_TimedOut),
     Raises("ConnectionRefusedError", M_Unreachable),
     Raises("OSError", M_TimedOut),
     Raises("OSError", M_Unreachable),
     Raises("Exception", M_BadHost)}

\* The fates followed in a whole scan.
ScanFates ==
    {Connected(10), Connected(20), [NoFate EXCEPT !.kind = "False"],
     Raises("TimeoutError", M_TimedOut), Raises("OSError", M_Unreachable)}

\* ScanResult(ip, port, status, response_time_ms=None, error_message=None)
ScanResult(ip, status) ==
    [ip |-> ip, port |-> ScanPort, status |-> status, response_time_ms |-> -1,
     error_message |-> None]
NoResult == ScanResult(Ip(0), "none")

\* What the try block of _probe_ip raises: what the constructor or
\* connect() raised, or what close() raised after connect() answered True.
RaisedInProbe(fate) ==
    IF fate.kind \notin {"True", "False"} THEN fate.kind
    ELSE IF fate.kind = "True" /\ fate.close # "ok" THEN fate.close
    ELSE "None"

\* The classes the except clauses of _probe_ip catch: TimeoutError and
\* ConnectionRefusedError are OSErrors, and every fault is an Exception.
ProbeCaught == {"TimeoutError", "ConnectionRefusedError", "OSError", "Exception"}

\* _probe_ip without its last except clause.
ProbeEscapes_NoCatchAll(fate) ==
    IF RaisedInProbe(fate) \in ProbeCaught \ {"Exception"} THEN "None"
    ELSE RaisedInProbe(fate)

\* The exception that leaves _probe_ip: the one no except clause catches.
ProbeEscapes(fate) ==
    IF RaisedInProbe(fate) \in ProbeCaught THEN "None"
    ELSE RaisedInProbe(fate)

\* _probe_ip that calls an unanswered or refused probe online.
ProbeIp_AllOnline(ip, fate) ==
    [ScanResult(ip, "online") EXCEPT !.response_time_ms = fate.ms]

\* _probe_ip: online with the latency when connect() answered True and
\* close() raised nothing; else by the except clause that catches what was
\* raised, in their order.
ProbeIp(ip, fate) ==
    LET raised == RaisedInProbe(fate)
    IN
    IF raised = "None"
    THEN IF fate.kind = "True"
         THEN [ScanResult(ip, "online") EXCEPT !.response_time_ms = fate.ms]
         ELSE ScanResult(ip, "connection_refused")
    ELSE IF raised = "TimeoutError" THEN ScanResult(ip, "timeout")
    ELSE IF raised = "ConnectionRefusedError"
    THEN ScanResult(ip, "connection_refused")
    ELSE IF raised = "OSError" /\ Contains(Lower(fate.text), P_timed_out)
    THEN ScanResult(ip, "timeout")
    ELSE [ScanResult(ip, "error") EXCEPT !.error_message = fate.text]

NoScan == [start |-> 0, end |-> 0, max_workers |-> 0, route |-> FALSE,
           net |-> "any"]
NoScanOutput == [devices |-> <<>>, count |-> -1, online_count |-> -1, status |-> 0]

\* No scan asked for.
ScannerInit ==
    /\ sc_cfg = NoScan
    /\ sc_phase = "idle"
    /\ sc_task = <<>>
    /\ sc_fate = <<>>
    /\ sc_res = <<>>
    /\ sc_results = <<>>
    /\ sc_out = NoScanOutput

BeyondIdle == FactoryInit({NoEnvironment}) /\ ServiceInit /\ ScannerInit

Init == MgrInit(MaxRetry) /\ MockInit({TEMP_AMBIENT}) /\ BeyondIdle

\* ------------------------------------------------------- the environment

\* The transport dies: from now on client.is_connected() answers false.
LinkDrop ==
    /\ client_up
    /\ client_up' = FALSE
    /\ UNCHANGED <<others, cfg, mgr, ctl, ev, obs>>

\* The caller is between two calls of the manager's methods.
Callable == pc \in {"idle", "done"}

\* -------------------------------------------------------- ensure_connected

\* EC_Return under a read/write_with_retry that ignores what
\* ensure_connected returned and invokes the closure.
EC_Return_Ignored(ret) ==
    /\ ec_ret' = ret
    /\ IF op = "ensure_connected"
       THEN /\ pc' = "done"
            /\ result' = IF ret THEN "True" ELSE "False"
            /\ exc' = exc
       ELSE /\ pc' = "rw_call"
            /\ UNCHANGED <<result, exc>>

\* ensure_connected returns ret: to the caller when it was called directly,
\* else into the try block of read/write_with_retry, whose next statement
\* raises ConnectionError("Unable to connect to PLC") on a false return.
EC_Return(ret) ==
    /\ ec_ret' = ret
    /\ IF op = "ensure_connected"
       THEN /\ pc' = "done"
            /\ result' = IF ret THEN "True" ELSE "False"
            /\ exc' = exc
       ELSE IF ret
            THEN /\ pc' = "rw_call"
                 /\ UNCHANGED <<result, exc>>
            ELSE /\ pc' = "rw_connerr"
                 /\ exc' = UnableToConnect
                 /\ result' = result

\* What EC_Return adds to the record of the operation.
ObsReturn(o, ret) ==
    IF ret THEN o ELSE [o EXCEPT !.ensure_fails = @ + 1]

Call_EnsureConnected ==
    /\ Callable
    /\ consecutive_failures <= MaxFailures
    /\ op' = "ensure_connected"
    /\ pc' = "ec_entry"
    /\ result' = "none"
    /\ exc' = NoError
    /\ attempt' = 0
    /\ ev' = "call"
    /\ obs' = [FreshObs EXCEPT !.ensures = 1]
    /\ UNCHANGED <<others, cfg, mgr, client_up, ec_attempt, ec_ret>>

\* EC_AlreadyConnected treating the live session as a fresh successful
\* connect: counter and error reset.
EC_AlreadyConnected_Resets ==
    /\ pc = "ec_entry"
    /\ client_up
    /\ connected' = TRUE
    /\ consecutive_failures' = 0
    /\ last_error' = NoError
    /\ EC_Return(TRUE)
    /\ ev' = "ec_already_connected"
    /\ obs' = ObsReturn([obs EXCEPT !.saw_up = TRUE], TRUE)
    /\ UNCHANGED <<others, cfg, client_up, op, attempt, ec_attempt>>

\* if self.client.is_connected(): self._connected = True; return True
EC_AlreadyConnected ==
    /\ pc = "ec_entry"
    /\ client_up
    /\ connected' = TRUE
    /\ EC_Return(TRUE)
    /\ ev' = "ec_already_connected"
    /\ obs' = ObsReturn([obs EXCEPT !.saw_up = TRUE], TRUE)
    /\ UNCHANGED <<others, cfg, consecutive_failures, last_error, client_up, op,
                   attempt, ec_attempt>>

\* if not self.auto_reconnect: return False
EC_NoReconnect ==
    /\ pc = "ec_entry"
    /\ ~client_up
    /\ ~auto_reconnect
    /\ EC_Return(FALSE)
    /\ ev' = "ec_no_reconnect"
    /\ obs' = ObsReturn([obs EXCEPT !.saw_up = FALSE], FALSE)
    /\ UNCHANGED <<others, cfg, mgr, client_up, op, attempt, ec_attempt>>

\* EC_StartLoop with the auto_reconnect check forgotten.
EC_StartLoop_IgnoresFlag ==
    /\ pc = "ec_entry"
    /\ ~client_up
    /\ ec_attempt' = 0
    /\ pc' = IF retry_count > 0 THEN "ec_connect" ELSE "ec_exhausted"
    /\ ev' = "ec_loop"
    /\ obs' = [obs EXCEPT !.saw_up = FALSE]
    /\ UNCHANGED <<others, cfg, mgr, client_up, op, attempt, ec_ret, exc, result>>

\* for attempt in range(self.retry_count): the loop is entered, or, with no
\* attempt to make, falls through to the statements after it.
EC_StartLoop ==
    /\ pc = "ec_entry"
    /\ ~client_up
    /\ auto_reconnect
    /\ ec_attempt' = 0
    /\ pc' = IF retry_count > 0 THEN "ec_connect" ELSE "ec_exhausted"
    /\ ev' = "ec_loop"
    /\ obs' = [obs EXCEPT !.saw_up = FALSE]
    /\ UNCHANGED <<others, cfg, mgr, client_up, op, attempt, ec_ret, exc, result>>

\* EC_AfterFailure with the loop bound off by one: one attempt too many.
EC_AfterFailure_OneMore ==
    pc' = IF ec_attempt < retry_count THEN "ec_sleep" ELSE "ec_exhausted"

\* The end of one failed iteration: sleep unless it was the last one.
EC_AfterFailure ==
    pc' = IF ec_attempt < retry_count - 1 THEN "ec_sleep" ELSE "ec_exhausted"

\* EC_ConnectOk without self._last_error = None.
EC_ConnectOk_KeepsError ==
    /\ pc = "ec_connect"
    /\ client_up' = TRUE
    /\ connected' = TRUE
    /\ consecutive_failures' = 0
    /\ EC_Return(TRUE)
    /\ ev' = "connect_ok"
    /\ obs' = ObsReturn([obs EXCEPT !.connects = @ + 1, !.last_conn = "ok"], TRUE)
    /\ UNCHANGED <<others, cfg, last_error, op, attempt, ec_attempt>>

\* if self.client.connect(): ... return True
EC_ConnectOk ==
    /\ pc = "ec_connect"
    /\ client_up' = TRUE
    /\ connected' = TRUE
    /\ consecutive_failures' = 0
    /\ last_error' = NoError
    /\ EC_Return(TRUE)
    /\ ev' = "connect_ok"
    /\ obs' = ObsReturn([obs EXCEPT !.connects = @ + 1, !.last_conn = "ok"], TRUE)
    /\ UNCHANGED <<others, cfg, op, attempt, ec_attempt>>

\* self.client.connect() returned a false value: nothing is recorded.
EC_ConnectFalse ==
    /\ pc = "ec_connect"
    /\ EC_AfterFailure
    /\ ev' = "connect_false"
    /\ obs' = [obs EXCEPT !.connects = @ + 1, !.connect_fails = @ + 1,
                          !.last_conn = "false"]
    /\ UNCHANGED <<others, cfg, mgr, client_up, op, attempt, ec_attempt, ec_ret, exc,
                   result>>

\* except Exception as e: self._last_error = e
EC_ConnectRaise ==
    /\ pc = "ec_connect"
    /\ \E e \in ConnectExceptions :
          /\ last_error' = e
          /\ obs' = [obs EXCEPT !.connects = @ + 1, !.connect_fails = @ + 1,
                                !.last_conn = e]
    /\ EC_AfterFailure
    /\ ev' = "connect_raise"
    /\ UNCHANGED <<others, cfg, connected, consecutive_failures, client_up, op, attempt,
                   ec_attempt, ec_ret, exc, result>>

\* delay = self._calculate_backoff(); time.sleep(delay)
EC_Sleep ==
    /\ pc = "ec_sleep"
    /\ obs' = [obs EXCEPT !.sleeps = @ + 1,
                 !.last_delay = CalculateBackoff(retry_delay, consecutive_failures)]
    /\ ec_attempt' = ec_attempt + 1
    /\ pc' = "ec_connect"
    /\ ev' = "ec_sleep"
    /\ UNCHANGED <<others, cfg, mgr, client_up, op, attempt, ec_ret, exc, result>>

\* After the loop: self._consecutive_failures += 1; self._connected = False;
\* return False
EC_Exhausted ==
    /\ pc = "ec_exhausted"
    /\ consecutive_failures' = consecutive_failures + 1
    /\ connected' = FALSE
    /\ EC_Return(FALSE)
    /\ ev' = "ec_exhausted"
    /\ obs' = ObsReturn(obs, FALSE)
    /\ UNCHANGED <<others, cfg, last_error, client_up, op, attempt, ec_attempt>>

\* -------------------------------------------------------------- disconnect

\* client.disconnect() returns or raises (swallowed); finally the manager
\* is marked disconnected.  A disconnect that raised may have left the
\* session open.
Disconnect ==
    /\ Callable
    /\ op' = "disconnect"
    /\ pc' = "done"
    /\ result' = "None"
    /\ exc' = NoError
    /\ attempt' = 0
    /\ obs' = [FreshObs EXCEPT !.disconnects = 1]
    /\ connected' = FALSE
    /\ \E raised \in BOOLEAN :
          /\ client_up' = IF raised THEN client_up ELSE FALSE
          /\ ev' = IF raised THEN "disconnect_raise" ELSE "disconnect_ok"
    /\ UNCHANGED <<others, cfg, consecutive_failures, last_error, ec_attempt, ec_ret>>

\* ------------------------------------------- read_with_retry / write_with_retry

\* Call_Retry with a loop that makes its first attempt before it looks at
\* retry_count.
Call_Retry_AttemptsFirst(o) ==
    /\ Callable
    /\ consecutive_failures <= MaxFailures
    /\ op' = o
    /\ attempt' = 0
    /\ ev' = "call"
    /\ pc' = "ec_entry"
    /\ result' = "none"
    /\ exc' = NoError
    /\ obs' = [FreshObs EXCEPT !.ensures = 1]
    /\ UNCHANGED <<others, cfg, mgr, client_up, ec_attempt, ec_ret>>

\* for attempt in range(self.retry_count): with no attempt to make the loop
\* is skipped: read_with_retry raises IOError("Operation failed after all
\* retries"), write_with_retry returns False.
Call_Retry(o) ==
    /\ Callable
    /\ consecutive_failures <= MaxFailures
    /\ op' = o
    /\ attempt' = 0
    /\ ev' = "call"
    /\ IF retry_count > 0
       THEN /\ pc' = "ec_entry"
            /\ result' = "none"
            /\ exc' = NoError
            /\ obs' = [FreshObs EXCEPT !.ensures = 1]
       ELSE /\ pc' = "done"
            /\ result' = IF o = "read_with_retry" THEN NoAttemptError ELSE "False"
            /\ exc' = IF o = "read_with_retry" THEN NoAttemptError ELSE NoError
            /\ obs' = FreshObs
    /\ UNCHANGED <<others, cfg, mgr, client_up, ec_attempt, ec_ret>>

Call_ReadWithRetry == Call_Retry("read_with_retry")

Call_WriteWithRetry == Call_Retry("write_with_retry")

\* RW_FuncOk without self._consecutive_failures = 0.
RW_FuncOk_NoReset ==
    /\ pc = "rw_call"
    /\ result' = IF op = "read_with_retry" THEN "value" ELSE "True"
    /\ pc' = "done"
    /\ ev' = "func_ok"
    /\ obs' = [obs EXCEPT !.funcs = @ + 1]
    /\ UNCHANGED <<others, cfg, mgr, client_up, op, attempt, ec_attempt, ec_ret, exc>>

\* result = func() returned (a write closure: returned a true value):
\* self._consecutive_failures = 0; return
RW_FuncOk ==
    /\ pc = "rw_call"
    /\ consecutive_failures' = 0
    /\ result' = IF op = "read_with_retry" THEN "value" ELSE "True"
    /\ pc' = "done"
    /\ ev' = "func_ok"
    /\ obs' = [obs EXCEPT !.funcs = @ + 1]
    /\ UNCHANGED <<others, cfg, connected, last_error, client_up, op, attempt,
                   ec_attempt, ec_ret, exc>>

\* RW_FuncFalse handing the closure's false value back to the caller.
RW_FuncFalse_ReturnsFalse ==
    /\ pc = "rw_call"
    /\ op = "write_with_retry"
    /\ result' = "False"
    /\ pc' = "done"
    /\ ev' = "func_false"
    /\ obs' = [obs EXCEPT !.funcs = @ + 1, !.func_fails = @ + 1]
    /\ UNCHANGED <<others, cfg, mgr, client_up, op, attempt, ec_attempt, ec_ret, exc>>

\* A write closure returned a false value:
\* raise IOError("Write operation returned False")
RW_FuncFalse ==
    /\ pc = "rw_call"
    /\ op = "write_with_retry"
    /\ exc' = WriteReturnedFalse
    /\ pc' = "rw_ioerr"
    /\ ev' = "func_false"
    /\ obs' = [obs EXCEPT !.funcs = @ + 1, !.func_fails = @ + 1]
    /\ UNCHANGED <<others, cfg, mgr, client_up, op, attempt, ec_attempt, ec_ret, result>>

\* func() raised: a ConnectionError goes to the first handler, any other
\* IOError (OSError) to the second.
RW_FuncRaise ==
    /\ pc = "rw_call"
    /\ \E e \in {FuncConnectionError, FuncIOError} :
          /\ exc' = e
          /\ pc' = IF e = FuncConnectionError THEN "rw_connerr" ELSE "rw_ioerr"
    /\ ev' = "func_raise"
    /\ obs' = [obs EXCEPT !.funcs = @ + 1, !.func_fails = @ + 1]
    /\ UNCHANGED <<others, cfg, mgr, client_up, op, attempt, ec_attempt, ec_ret, result>>

\* RW_FuncOther under a handler that catches every Exception: the error
\* is retried like an IOError.
RW_FuncOther_Retried ==
    /\ pc = "rw_call"
    /\ exc' = FuncValueError
    /\ pc' = "rw_ioerr"
    /\ ev' = "func_other"
    /\ obs' = [obs EXCEPT !.funcs = @ + 1, !.func_fails = @ + 1]
    /\ UNCHANGED <<others, cfg, mgr, client_up, op, attempt, ec_attempt, ec_ret, result>>

\* func() raised an exception no handler names: it leaves the method.
RW_FuncOther ==
    /\ pc = "rw_call"
    /\ exc' = FuncValueError
    /\ result' = FuncValueError
    /\ pc' = "done"
    /\ ev' = "func_other"
    /\ obs' = [obs EXCEPT !.funcs = @ + 1, !.func_fails = @ + 1]
    /\ UNCHANGED <<others, cfg, mgr, client_up, op, attempt, ec_attempt, ec_ret>>

\* RW_AfterFailure giving up one attempt early.
RW_AfterFailure_GivesUpEarly ==
    IF attempt < retry_count - 2
    THEN /\ pc' = "rw_sleep"
         /\ result' = result
    ELSE /\ pc' = "done"
         /\ result' = exc

\* The end of a handler: sleep and go round again, or, in the last
\* iteration, raise the exception in flight.
RW_AfterFailure ==
    IF attempt < retry_count - 1
    THEN /\ pc' = "rw_sleep"
         /\ result' = result
    ELSE /\ pc' = "done"
         /\ result' = exc

\* RW_ConnErr raising to the caller at once, whatever the attempt.
RW_ConnErr_RaisesAtOnce ==
    /\ pc = "rw_connerr"
    /\ connected' = FALSE
    /\ consecutive_failures' = consecutive_failures + 1
    /\ last_error' = ConnectionLost
    /\ pc' = "done"
    /\ result' = exc
    /\ ev' = "except_connection_error"
    /\ UNCHANGED <<others, cfg, client_up, op, attempt, ec_attempt, ec_ret, exc, obs>>

\* RW_ConnErr without self._connected = False.
RW_ConnErr_KeepsSession ==
    /\ pc = "rw_connerr"
    /\ consecutive_failures' = consecutive_failures + 1
    /\ last_error' = ConnectionLost
    /\ RW_AfterFailure
    /\ ev' = "except_connection_error"
    /\ UNCHANGED <<others, cfg, connected, client_up, op, attempt, ec_attempt, ec_ret,
                   exc, obs>>

\* except ConnectionError:
RW_ConnErr ==
    /\ pc = "rw_connerr"
    /\ connected' = FALSE
    /\ consecutive_failures' = consecutive_failures + 1
    /\ last_error' = ConnectionLost
    /\ RW_AfterFailure
    /\ ev' = "except_connection_error"
    /\ UNCHANGED <<others, cfg, client_up, op, attempt, ec_attempt, ec_ret, exc, obs>>

\* RW_IOErr tearing the session down as the ConnectionError handler does.
RW_IOErr_TearsDown ==
    /\ pc = "rw_ioerr"
    /\ connected' = FALSE
    /\ last_error' = exc
    /\ consecutive_failures' = consecutive_failures + 1
    /\ RW_AfterFailure
    /\ ev' = "except_io_error"
    /\ UNCHANGED <<others, cfg, client_up, op, attempt, ec_attempt, ec_ret, exc, obs>>

\* except IOError as e:
RW_IOErr ==
    /\ pc = "rw_ioerr"
    /\ last_error' = exc
    /\ consecutive_failures' = consecutive_failures + 1
    /\ RW_AfterFailure
    /\ ev' = "except_io_error"
    /\ UNCHANGED <<others, cfg, connected, client_up, op, attempt, ec_attempt, ec_ret,
                   exc, obs>>

\* delay = self._calculate_backoff(); time.sleep(delay); then the next
\* iteration, which begins with ensure_connected().
RW_Sleep ==
    /\ pc = "rw_sleep"
    /\ obs' = [obs EXCEPT !.sleeps = @ + 1,
                 !.last_delay = CalculateBackoff(retry_delay, consecutive_failures),
                 !.ensures = @ + 1]
    /\ attempt' = attempt + 1
    /\ pc' = "ec_entry"
    /\ ev' = "rw_sleep"
    /\ UNCHANGED <<others, cfg, mgr, client_up, op, ec_attempt, ec_ret, exc, result>>


\* -------------------------------------------------------------- get_status

\* get_status() storing what it read of the client in the cached flag.
Call_GetStatus_Caches ==
    /\ Callable
    /\ op' = "get_status"
    /\ pc' = "done"
    /\ result' = "status"
    /\ exc' = NoError
    /\ attempt' = 0
    /\ ev' = "get_status"
    /\ connected' = IsConnected
    /\ obs' = [FreshObs EXCEPT !.status = <<GetStatus>>]
    /\ UNCHANGED <<others, cfg, consecutive_failures, last_error, client_up,
                   ec_attempt, ec_ret>>

\* get_status(): the snapshot is built from the fields and the
\* is_connected property, and returned.
Call_GetStatus ==
    /\ Callable
    /\ op' = "get_status"
    /\ pc' = "done"
    /\ result' = "status"
    /\ exc' = NoError
    /\ attempt' = 0
    /\ ev' = "get_status"
    /\ obs' = [FreshObs EXCEPT !.status = <<GetStatus>>]
    /\ UNCHANGED <<others, cfg, mgr, client_up, ec_attempt, ec_ret>>

\* ------------------------------------------------------ __enter__ / __exit__

\* The exception a with-block's body ends with.
BodyError == "Exception: body"

\* What __exit__ saw: how the body ended and how client.disconnect() ended.
ExitEvent(body_raised, disc_raised) ==
    IF body_raised
    THEN IF disc_raised THEN "exit_body_raise_disc_raise" ELSE "exit_body_raise"
    ELSE IF disc_raised THEN "exit_disc_raise" ELSE "exit"

ExitEvents ==
    {ExitEvent(b, d) : b \in BOOLEAN, d \in BOOLEAN}

\* with manager: __enter__ calls ensure_connected() and returns self.
Scope_Enter ==
    /\ Callable
    /\ scope = "out"
    /\ consecutive_failures <= MaxFailures
    /\ scope' = "in"
    /\ op' = "ensure_connected"
    /\ pc' = "ec_entry"
    /\ result' = "none"
    /\ exc' = NoError
    /\ attempt' = 0
    /\ ev' = "enter"
    /\ obs' = [FreshObs EXCEPT !.ensures = 1]
    /\ UNCHANGED <<mock, beyond, cfg, mgr, client_up, ec_attempt, ec_ret>>

\* __exit__ returning True: the body's exception is suppressed.
Scope_Exit_Suppresses ==
    /\ scope = "in"
    /\ pc = "done"
    /\ scope' = "out"
    /\ op' = "__exit__"
    /\ pc' = "done"
    /\ attempt' = 0
    /\ obs' = [FreshObs EXCEPT !.disconnects = 1]
    /\ connected' = FALSE
    /\ \E body_raised \in BOOLEAN, disc_raised \in BOOLEAN :
          /\ exc' = IF body_raised THEN BodyError ELSE NoError
          /\ result' = "None"
          /\ client_up' = IF disc_raised THEN client_up ELSE FALSE
          /\ ev' = ExitEvent(body_raised, disc_raised)
    /\ UNCHANGED <<mock, beyond, cfg, consecutive_failures, last_error, ec_attempt,
                   ec_ret>>

\* The with-block ends, normally or by an exception of its body: __exit__
\* calls disconnect() (client.disconnect(), its exception swallowed,
\* finally _connected = False) and returns False, so that an exception of
\* the body goes on to the caller.
Scope_Exit ==
    /\ scope = "in"
    /\ pc = "done"
    /\ scope' = "out"
    /\ op' = "__exit__"
    /\ pc' = "done"
    /\ attempt' = 0
    /\ obs' = [FreshObs EXCEPT !.disconnects = 1]
    /\ connected' = FALSE
    /\ \E body_raised \in BOOLEAN, disc_raised \in BOOLEAN :
          /\ exc' = IF body_raised THEN BodyError ELSE NoError
          /\ result' = IF body_raised THEN BodyError ELSE "None"
          /\ client_up' = IF disc_raised THEN client_up ELSE FALSE
          /\ ev' = ExitEvent(body_raised, disc_raised)
    /\ UNCHANGED <<mock, beyond, cfg, consecutive_failures, last_error, ec_attempt,
                   ec_ret>>

\* ------------------------------------------------------------ specification

Next ==
    \/ LinkDrop
    \/ Call_EnsureConnected
    \/ EC_AlreadyConnected
    \/ EC_NoReconnect
    \/ EC_StartLoop
    \/ EC_ConnectOk
    \/ EC_ConnectFalse
    \/ EC_ConnectRaise
    \/ EC_Sleep
    \/ EC_Exhausted
    \/ Disconnect
    \/ Call_ReadWithRetry
    \/ Call_WriteWithRetry
    \/ RW_FuncOk
    \/ RW_FuncFalse
    \/ RW_FuncRaise
    \/ RW_FuncOther
    \/ RW_ConnErr
    \/ RW_IOErr
    \/ RW_Sleep
    \/ Call_GetStatus

Spec == Init /\ [][Next]_vars

\* The manager under read_with_retry and write_with_retry alone, built
\* with retry_delay 1 and a retry_count drawn from 0..MaxScopeRetry.
InitRetry ==
    /\ MgrInit(MaxScopeRetry)
    /\ retry_delay = 1
    /\ MockInit({TEMP_AMBIENT})
    /\ BeyondIdle

NextRetry ==
    \/ LinkDrop
    \/ Call_ReadWithRetry
    \/ Call_WriteWithRetry
    \/ EC_AlreadyConnected
    \/ EC_NoReconnect
    \/ EC_StartLoop
    \/ EC_ConnectOk
    \/ EC_ConnectFalse
    \/ EC_ConnectRaise
    \/ EC_Sleep
    \/ EC_Exhausted
    \/ RW_FuncOk
    \/ RW_FuncFalse
    \/ RW_FuncRaise
    \/ RW_FuncOther
    \/ RW_ConnErr
    \/ RW_IOErr
    \/ RW_Sleep

\* A step of the operation in flight: a call of the client or of the
\* closure returns or raises, a sleep ends, a handler runs.
InFlightStep == ~Callable /\ NextRetry

\* Every call the operation makes comes back and every sleep ends.
SpecRetryFair == InitRetry /\ [][NextRetry]_vars /\ WF_vars(InFlightStep)

\* The manager used in with-blocks: retry_count is drawn from
\* 0..MaxScopeRetry.
InitScope == MgrInit(MaxScopeRetry) /\ MockInit({TEMP_AMBIENT}) /\ BeyondIdle

NextScope ==
    \/ Next
    \/ Scope_Enter
    \/ Scope_Exit

SpecScope == InitScope /\ [][NextScope]_vars


\* ------------------------------------------------------- MockPLC: the calls

\* write_register on the registers and coils st.
WriteRegister(st, address, value) ==
    [regs |-> [st.regs EXCEPT ![address] = value],
     coils |-> IF address = REGISTER_MOTOR_SPEED
               THEN [st.coils EXCEPT ![COIL_MOTOR_STOPPED] = (value = 0)]
               ELSE st.coils]

\* write_coil on the registers and coils st.
WriteCoil(st, address, value) ==
    LET written == [st.coils EXCEPT ![address] = value] IN
    IF address = COIL_MOTOR_RUNNING
    THEN [coils |-> [written EXCEPT ![COIL_MOTOR_STOPPED] = ~value],
          regs |-> IF ~value
                   THEN [st.regs EXCEPT ![REGISTER_MOTOR_SPEED] = 0,
                                        ![REGISTER_MOTOR_CURRENT] = 0]
                   ELSE st.regs]
    ELSE IF address = COIL_MOTOR_STOPPED
    THEN [coils |-> [written EXCEPT ![COIL_MOTOR_RUNNING] = ~value],
          regs |-> st.regs]
    ELSE [coils |-> written, regs |-> st.regs]

\* _simulate_behavior heating with no ceiling.
SimulateBehavior_NoCeiling(st) ==
    LET motor_running == st.coils[COIL_MOTOR_RUNNING]
        speed == st.regs[REGISTER_MOTOR_SPEED]
        temp == st.regs[REGISTER_TEMPERATURE]
    IN {[regs |-> [st.regs EXCEPT
                     ![REGISTER_TEMPERATURE] =
                         IF motor_running /\ speed > 0 THEN temp + heat
                         ELSE Max(TEMP_AMBIENT, temp - 1)],
         coils |-> st.coils] : heat \in HeatDraws}

\* The states one _simulate_behavior step may leave, over its random
\* draws.
SimulateBehavior(st) ==
    LET motor_running == st.coils[COIL_MOTOR_RUNNING]
        speed == st.regs[REGISTER_MOTOR_SPEED]
        temp == st.regs[REGISTER_TEMPERATURE]
        motor ==
            IF motor_running /\ speed > 0
            THEN {[st.regs EXCEPT
                     ![REGISTER_MOTOR_CURRENT] = Max(0, (speed \div 2) + noise),
                     ![REGISTER_TEMPERATURE] =
                         IF temp < TEMP_MAX THEN Min(TEMP_MAX, temp + heat)
                         ELSE temp] :
                  noise \in NoiseDraws, heat \in HeatDraws}
            ELSE {[st.regs EXCEPT
                     ![REGISTER_TEMPERATURE] =
                         IF temp > TEMP_AMBIENT
                         THEN Max(TEMP_AMBIENT, temp - cool) ELSE temp] :
                  cool \in CoolDraws}
        sensors ==
            IF st.coils[COIL_CONVEYOR_RUNNING]
            THEN {[st.coils EXCEPT ![COIL_SENSOR_1] = s1, ![COIL_SENSOR_2] = s2] :
                  s1 \in {st.coils[COIL_SENSOR_1], TRUE, FALSE},
                  s2 \in {st.coils[COIL_SENSOR_2], TRUE, FALSE}}
            ELSE {st.coils}
    IN {[regs |-> r, coils |-> c] : r \in motor, c \in sensors}

\* start_motor, stop_motor, start_conveyor, stop_conveyor, trigger_estop
\* and release_estop, as the writes they make.
StartMotor(st, speed) ==
    WriteRegister(WriteCoil(st, COIL_MOTOR_RUNNING, TRUE),
                  REGISTER_MOTOR_SPEED, Min(SPEED_MAX, Max(0, speed)))

StopMotor(st) == WriteCoil(st, COIL_MOTOR_RUNNING, FALSE)

StartConveyor(st, speed) ==
    WriteRegister(WriteCoil(st, COIL_CONVEYOR_RUNNING, TRUE),
                  REGISTER_CONVEYOR_SPEED, Min(SPEED_MAX, Max(0, speed)))

StopConveyor(st) ==
    WriteRegister(WriteCoil(st, COIL_CONVEYOR_RUNNING, FALSE),
                  REGISTER_CONVEYOR_SPEED, 0)

\* trigger_estop without its stop_conveyor() call.
TriggerEstop_MotorOnly(st) ==
    StopMotor(WriteCoil(st, COIL_E_STOP, TRUE))

TriggerEstop(st) ==
    StopConveyor(StopMotor(WriteCoil(st, COIL_E_STOP, TRUE)))

ReleaseEstop(st) == WriteCoil(st, COIL_E_STOP, FALSE)

\* The registers and coils as they are.
MockState == [regs |-> m_regs, coils |-> m_coils]

\* A call on a mock without _ensure_connected(): it acts connected or not.
MockEffect_NoGuard(name, st, steps) ==
    /\ m_regs' = st.regs
    /\ m_coils' = st.coils
    /\ m_obs' = [op |-> name, raised |-> FALSE, steps |-> steps,
                 turned_off |-> (m_coils[COIL_MOTOR_RUNNING]
                                 /\ ~st.coils[COIL_MOTOR_RUNNING]),
                 prev_off |-> m_obs.turned_off, ret |-> "None",
                 tick |-> FALSE, prev |-> "none"]
    /\ UNCHANGED <<manager, scope, beyond, m_connected>>

\* One call on the mock: _ensure_connected() raises ConnectionError on a
\* mock that is not connected, before anything is read or written; else
\* the call leaves the state st, having run `steps` simulation steps.
MockEffect(name, st, steps) ==
    /\ IF m_connected
       THEN /\ m_regs' = st.regs
            /\ m_coils' = st.coils
            /\ m_obs' = [op |-> name, raised |-> FALSE, steps |-> steps,
                         turned_off |-> (m_coils[COIL_MOTOR_RUNNING]
                                         /\ ~st.coils[COIL_MOTOR_RUNNING]),
                         prev_off |-> m_obs.turned_off, ret |-> "None",
                         tick |-> FALSE, prev |-> "none"]
       ELSE /\ UNCHANGED <<m_regs, m_coils>>
            /\ m_obs' = [op |-> name, raised |-> TRUE, steps |-> 0,
                         turned_off |-> FALSE, prev_off |-> m_obs.turned_off,
                         ret |-> "None", tick |-> FALSE, prev |-> "none"]
    /\ UNCHANGED <<manager, scope, beyond, m_connected>>

\* A call that counts against the calls made on one mock.
MockCall(name, st, steps) ==
    /\ m_ops < MaxMockOps
    /\ m_ops' = m_ops + 1
    /\ MockEffect(name, st, steps)

ConnOps == {"connect", "disconnect", "is_connected"}

\* What connect, disconnect and is_connected leave in the history: what
\* the call returned, which of the three was called just before it, and a
\* tick that tells the call from the one before it.
ConnCall(name, ret) ==
    [NoCall EXCEPT !.op = name, !.ret = ret, !.tick = ~m_obs.tick,
                   !.prev = IF m_obs.op \in ConnOps THEN m_obs.op ELSE "none"]

\* connect() that leaves the flag alone.
M_Connect_NoEffect ==
    /\ m_obs' = ConnCall("connect", PyBool(TRUE))
    /\ UNCHANGED <<manager, scope, beyond, m_connected, m_regs, m_coils, m_ops>>

\* connect() sets the flag and returns True, whatever the flag was.
M_Connect ==
    /\ m_connected' = TRUE
    /\ m_obs' = ConnCall("connect", PyBool(TRUE))
    /\ UNCHANGED <<manager, scope, beyond, m_regs, m_coils, m_ops>>

\* disconnect() clears the flag, whatever it was.
M_Disconnect ==
    /\ m_connected' = FALSE
    /\ m_obs' = ConnCall("disconnect", "None")
    /\ UNCHANGED <<manager, scope, beyond, m_regs, m_coils, m_ops>>

\* is_connected() returns the flag.
M_IsConnected ==
    /\ m_obs' = ConnCall("is_connected", PyBool(m_connected))
    /\ UNCHANGED <<manager, scope, beyond, m_connected, m_regs, m_coils, m_ops>>

\* read_holding_registers: _simulate_behavior(), then the values.
M_ReadHoldingRegisters ==
    \E st \in SimulateBehavior(MockState) :
       MockCall("read_holding_registers", st, 1)

\* read_coils: the values, with no simulation step.
M_ReadCoils ==
    MockCall("read_coils", MockState, 0)

\* read_state: _simulate_behavior(), then read_holding_registers (which
\* simulates again) and read_coils.
M_ReadState ==
    \E st \in UNION {SimulateBehavior(s1) : s1 \in SimulateBehavior(MockState)} :
       MockCall("read_state", st, 2)

M_WriteRegister ==
    \E a \in WriteRegisterAddresses, v \in WriteRegisterValues :
       MockCall("write_register", WriteRegister(MockState, a, v), 0)

M_WriteCoil ==
    \E a \in WriteCoilAddresses, v \in BOOLEAN :
       MockCall("write_coil", WriteCoil(MockState, a, v), 0)

M_StartMotor ==
    \E speed \in StartSpeeds :
       MockCall("start_motor", StartMotor(MockState, speed), 0)

M_StopMotor ==
    MockCall("stop_motor", StopMotor(MockState), 0)

M_StartConveyor ==
    \E speed \in StartSpeeds :
       MockCall("start_conveyor", StartConveyor(MockState, speed), 0)

M_StopConveyor ==
    MockCall("stop_conveyor", StopConveyor(MockState), 0)

M_TriggerEstop ==
    MockCall("trigger_estop", TriggerEstop(MockState), 0)

M_ReleaseEstop ==
    MockCall("release_estop", ReleaseEstop(MockState), 0)

\* A mock on its own, beside an idle manager built with the defaults.
InitMock ==
    /\ MgrInit(MaxRetry)
    /\ retry_count = MaxRetry
    /\ retry_delay = 1
    /\ auto_reconnect
    /\ ~client_up
    /\ MockInit(InitTemperatures)
    /\ BeyondIdle

NextMock ==
    \/ M_Connect
    \/ M_Disconnect
    \/ M_IsConnected
    \/ M_ReadHoldingRegisters
    \/ M_ReadCoils
    \/ M_ReadState
    \/ M_WriteRegister
    \/ M_WriteCoil
    \/ M_StartMotor
    \/ M_StopMotor
    \/ M_StartConveyor
    \/ M_StopConveyor
    \/ M_TriggerEstop
    \/ M_ReleaseEstop

SpecMock == InitMock /\ [][NextMock]_vars

\* A mock that is connected, asked and disconnected at will, between a
\* few calls that change its store.
NextConn ==
    \/ M_Connect
    \/ M_Disconnect
    \/ M_IsConnected
    \/ M_StartMotor
    \/ M_WriteCoil
    \/ M_ReadHoldingRegisters

SpecConn == InitMock /\ [][NextConn]_vars

\* The five calls of the client interface that read or write the store,
\* on a mock that is connected and disconnected at will.
NextGuard ==
    \/ M_Connect
    \/ M_Disconnect
    \/ M_ReadHoldingRegisters
    \/ M_ReadCoils
    \/ M_ReadState
    \/ M_WriteRegister
    \/ M_WriteCoil

SpecGuard == InitMock /\ [][NextGuard]_vars

\* MockPLC(initial_state): _apply_initial_state writes the given registers
\* and coils over the defaults as they come, whether they agree or not. The
\* machines the stop is tried on: idle; running with the conveyor; the motor
\* coil off over a speed and current left standing; both motor coils set;
\* both clear; stopped before.
Machine(running, stopped, speed, current, conveyor, belt, e_stop) ==
    [regs |-> [DefaultRegisters EXCEPT ![REGISTER_MOTOR_SPEED] = speed,
                                       ![REGISTER_MOTOR_CURRENT] = current,
                                       ![REGISTER_CONVEYOR_SPEED] = belt],
     coils |-> [DefaultCoils EXCEPT ![COIL_MOTOR_RUNNING] = running,
                                    ![COIL_MOTOR_STOPPED] = stopped,
                                    ![COIL_CONVEYOR_RUNNING] = conveyor,
                                    ![COIL_E_STOP] = e_stop]]

InitialStates ==
    {Machine(FALSE, TRUE, 0, 0, FALSE, 0, FALSE),
     Machine(TRUE, FALSE, 50, 25, TRUE, 50, FALSE),
     Machine(FALSE, TRUE, 50, 25, FALSE, 50, FALSE),
     Machine(TRUE, TRUE, 0, 25, TRUE, 0, FALSE),
     Machine(FALSE, FALSE, 50, 0, FALSE, 0, TRUE),
     Machine(FALSE, TRUE, 0, 0, FALSE, 0, TRUE)}

InitEstop ==
    /\ MgrInit(MaxRetry)
    /\ retry_count = MaxRetry
    /\ retry_delay = 1
    /\ auto_reconnect
    /\ ~client_up
    /\ m_connected = FALSE
    /\ \E st \in InitialStates :
          /\ m_regs = st.regs
          /\ m_coils = st.coils
    /\ m_obs = NoCall
    /\ m_ops = 0
    /\ BeyondIdle

\* The emergency stop among reads and the calls that start the machine.
NextEstop ==
    \/ M_Connect
    \/ M_TriggerEstop
    \/ M_ReleaseEstop
    \/ M_ReadHoldingRegisters
    \/ M_ReadCoils
    \/ M_ReadState
    \/ M_StartMotor
    \/ M_StartConveyor

SpecEstop == InitEstop /\ [][NextEstop]_vars

\* ------------------------------------------- MockPLC: polled without end

\* The motor speeds and currents a polled mock is started with.
PollSpeeds == {0, 50}
PollCurrents == {0, 25}

\* _simulate_behavior takes its first branch.
MotorOn == m_coils[COIL_MOTOR_RUNNING] /\ m_regs[REGISTER_MOTOR_SPEED] > 0

\* MockPLC(initial_state) with the motor running or stopped, at a speed, a
\* current and a temperature.
InitPoll ==
    /\ MgrInit(MaxRetry)
    /\ retry_count = MaxRetry
    /\ retry_delay = 1
    /\ auto_reconnect
    /\ ~client_up
    /\ m_connected = FALSE
    /\ \E running \in BOOLEAN, speed \in PollSpeeds, current \in PollCurrents,
          t \in InitTemperatures :
          /\ m_regs = [DefaultRegisters EXCEPT ![REGISTER_MOTOR_SPEED] = speed,
                                               ![REGISTER_MOTOR_CURRENT] = current,
                                               ![REGISTER_TEMPERATURE] = t]
          /\ m_coils = [DefaultCoils EXCEPT ![COIL_MOTOR_RUNNING] = running,
                                            ![COIL_MOTOR_STOPPED] = ~running]
    /\ m_obs = NoCall
    /\ m_ops = 0
    /\ BeyondIdle

\* read_holding_registers, any number of times.
Poll_ReadHoldingRegisters ==
    /\ \E st \in SimulateBehavior(MockState) :
          MockEffect("read_holding_registers", st, 1)
    /\ UNCHANGED m_ops

\* The three writes that turn the motor off.
Poll_StopByRunningCoil ==
    /\ MockEffect("write_coil", WriteCoil(MockState, COIL_MOTOR_RUNNING, FALSE), 0)
    /\ UNCHANGED m_ops

Poll_StopByStoppedCoil ==
    /\ MockEffect("write_coil", WriteCoil(MockState, COIL_MOTOR_STOPPED, TRUE), 0)
    /\ UNCHANGED m_ops

Poll_StopBySpeed ==
    /\ MockEffect("write_register",
                  WriteRegister(MockState, REGISTER_MOTOR_SPEED, 0), 0)
    /\ UNCHANGED m_ops

NextPoll ==
    \/ M_Connect
    \/ Poll_ReadHoldingRegisters
    \/ Poll_StopByRunningCoil
    \/ Poll_StopByStoppedCoil
    \/ Poll_StopBySpeed

\* The caller keeps reading: read_holding_registers is called again and
\* again.
SpecPoll == InitPoll /\ [][NextPoll]_vars /\ WF_vars(Poll_ReadHoldingRegisters)

\* ------------------------------------------------ client factory: the calls

\* PLCConnectionManager(client, retry_count=retries or 3, retry_delay=1.0,
\* auto_reconnect=auto_reconnect): not connected.
NoManager == [connected |-> FALSE, retry_count |-> 0, auto_reconnect |-> FALSE]
NewManager(retries, auto) ==
    [connected |-> FALSE, retry_count |-> IF retries # 0 THEN retries ELSE 3,
     auto_reconnect |-> auto]

\* What client.connect() may answer: a mock always connects, a controller
\* on the network may not.
ConnectResults(class) == IF class = "MockPLC" THEN {TRUE} ELSE BOOLEAN

\* What a call of the factory leaves: its arguments, what it raised, and
\* how many clients it constructed.
FactoryCall(name, plc_type, numbers, r) ==
    [op |-> name, plc_type |-> plc_type, port |-> numbers[1],
     timeout |-> numbers[2], retries |-> numbers[3], raised |-> r.raised, message |-> r.message,
     made |-> IF r.raised = "None" THEN 1 ELSE 0]

\* create_plc_client(plc_type, host, port, timeout, retries, scene_name)
F_CreatePlcClient ==
    /\ Len(f_clients) < MaxClients
    /\ \E plc_type \in KindArgs, numbers \in NumberArgs :
          LET r == CreatePlcClientOn[plc_type, numbers, f_env] IN
          /\ f_out' = FactoryCall("create_plc_client", plc_type, numbers, r)
          /\ f_clients' =
                IF r.raised = "None"
                THEN Append(f_clients, [client |-> r.client, managed |-> FALSE,
                                        manager |-> NoManager])
                ELSE f_clients
    /\ UNCHANGED <<not_factory, f_env>>

\* create_managed_client(...): create_plc_client, then the manager around
\* what it returned.
F_CreateManagedClient ==
    /\ Len(f_clients) < MaxClients
    /\ \E plc_type \in KindArgs, numbers \in NumberArgs, auto \in BOOLEAN :
          LET r == CreatePlcClientOn[plc_type, numbers, f_env] IN
          /\ f_out' = FactoryCall("create_managed_client", plc_type, numbers, r)
          /\ f_clients' =
                IF r.raised = "None"
                THEN Append(f_clients, [client |-> r.client, managed |-> TRUE,
                                        manager |-> NewManager(numbers[3], auto)])
                ELSE f_clients
    /\ UNCHANGED <<not_factory, f_env>>

\* The caller connects a client it was given: client.connect().
F_CallerConnects ==
    /\ \E i \in DOMAIN f_clients, b \in BOOLEAN :
          /\ ~f_clients[i].managed
          /\ b \in ConnectResults(f_clients[i].client.class)
          /\ f_clients' = [f_clients EXCEPT ![i].client.connected = b,
                                            ![i].client.dialled = TRUE]
    /\ f_out' = [NoFactoryCall EXCEPT !.op = "connect"]
    /\ UNCHANGED <<not_factory, f_env>>

\* manager.ensure_connected() on a manager the factory returned: nothing
\* to do when connected, no dialling without auto_reconnect, else
\* client.connect() until it answers True or the attempts are used up.
F_ManagerEnsureConnected ==
    /\ \E i \in DOMAIN f_clients, b \in BOOLEAN :
          LET e == f_clients[i] IN
          /\ e.managed
          /\ b \in ConnectResults(e.client.class)
          /\ f_clients' =
                IF (e.manager.connected /\ e.client.connected)
                   \/ ~e.manager.auto_reconnect
                THEN f_clients
                ELSE [f_clients EXCEPT ![i].client.connected = b,
                                       ![i].client.dialled = TRUE,
                                       ![i].manager.connected = b]
    /\ f_out' = [NoFactoryCall EXCEPT !.op = "ensure_connected"]
    /\ UNCHANGED <<not_factory, f_env>>

\* A process with its environment, in which the factory is called.
InitFactory ==
    /\ MgrInit(MaxRetry)
    /\ retry_count = MaxRetry
    /\ retry_delay = 1
    /\ auto_reconnect
    /\ ~client_up
    /\ MockInit({TEMP_AMBIENT})
    /\ FactoryInit(Environments)
    /\ ServiceInit
    /\ ScannerInit

NextFactory ==
    \/ F_CreatePlcClient
    \/ F_CreateManagedClient
    \/ F_CallerConnects
    \/ F_ManagerEnsureConnected

SpecFactory == InitFactory /\ [][NextFactory]_vars

\* ------------------------------------------ PLCConnectionService: the calls

\* is_connected: False without a client, else what the client answers.
ServiceIsConnected == s_client # 0 /\ s_made[s_client]

\* The calls is_connected makes on the client.
AskCalls == IF s_client # 0 THEN <<"is_connected">> ELSE <<>>

\* The session of a client goes down on its own.
S_LinkDrop ==
    /\ \E i \in DOMAIN s_made :
          /\ s_made[i]
          /\ s_made' = [s_made EXCEPT ![i] = FALSE]
    /\ s_out' = [NoServiceCall EXCEPT !.op = "link_drop"]
    /\ UNCHANGED <<not_service, s_client, s_flag, s_seen, s_log>>

\* connect(ip, port): disconnect the client held (what that raises is
\* swallowed), make a new client and connect it.
S_Connect ==
    /\ Len(s_made) < MaxSessions
    /\ \E closed \in BOOLEAN, outcome \in {"True", "False", "raised", "no client"} :
          LET after_close ==
                  IF s_client # 0 /\ closed
                  THEN [s_made EXCEPT ![s_client] = FALSE]
                  ELSE s_made
          IN
          /\ (s_client = 0) => closed
          /\ IF outcome = "no client"
             THEN /\ s_made' = after_close
                  /\ s_client' = s_client
             ELSE /\ s_made' = Append(after_close, outcome = "True")
                  /\ s_client' = Len(s_made) + 1
          /\ s_flag' = (outcome = "True")
          /\ s_seen' = (s_seen \/ outcome = "True")
          /\ s_out' = [NoServiceCall EXCEPT
                         !.op = "connect",
                         !.was_connected = ServiceIsConnected,
                         !.raised = "None",
                         !.message = [NoMessageS EXCEPT !.text = outcome],
                         !.calls = IF s_client # 0 THEN <<"disconnect">>
                                   ELSE <<>>]
    /\ UNCHANGED <<not_service, s_log>>

\* disconnect(): disconnect the client held, forget it.
S_Disconnect ==
    /\ \E closed \in BOOLEAN :
          /\ (s_client = 0) => closed
          /\ s_made' = IF s_client # 0 /\ closed
                       THEN [s_made EXCEPT ![s_client] = FALSE]
                       ELSE s_made
    /\ s_client' = 0
    /\ s_flag' = FALSE
    /\ s_out' = [NoServiceCall EXCEPT
                   !.op = "disconnect",
                   !.was_connected = ServiceIsConnected,
                   !.calls = IF s_client # 0 THEN <<"disconnect">> ELSE <<>>]
    /\ UNCHANGED <<not_service, s_seen, s_log>>

\* The ValueError of write_coil: f"Address {address} is not writable.
\* Writable: {self.WRITABLE_COILS}"
NotWritable(address) ==
    [text |-> "is not writable", address |-> address, writable |-> WRITABLE_COILS]

\* What client.write_coil gives: True, False, or an error raised.
WriteOutcomes == {"True", "False", "ConnectionError", "IOError"}

\* A route that answers every error of the service with 500.
RouteStatus_AllServerErrors(raised) ==
    IF raised = "None" THEN 200 ELSE 500

\* The HTTP status of POST /plc/write-coil for what the service raised.
RouteStatus(raised) ==
    CASE raised = "None" -> 200
      [] raised = "ValueError" -> 400
      [] raised = "ConnectionError" -> 503
      [] raised = "IOError" -> 500

\* write_coil(address, value) that writes first and checks afterwards.
ServiceWriteCoil_ChecksLate(route, address, value, outcome) ==
    LET wrote == ServiceIsConnected
        ok == wrote /\ address \in WRITABLE_COILS /\ outcome \in {"True", "False"}
    IN
    /\ s_log' = IF wrote THEN Append(s_log, address) ELSE s_log
    /\ s_seen' = (s_seen \/ ok)
    /\ s_out' = [op |-> IF route THEN "POST /plc/write-coil" ELSE "write_coil",
                 address |-> address, value |-> value,
                 was_connected |-> ServiceIsConnected,
                 raised |-> IF ~wrote THEN "ConnectionError"
                            ELSE IF address \notin WRITABLE_COILS
                            THEN "ValueError" ELSE "None",
                 status |-> IF ~route THEN 0
                            ELSE IF ~wrote THEN 503
                            ELSE IF address \notin WRITABLE_COILS THEN 400
                            ELSE 200,
                 message |-> IF wrote /\ address \notin WRITABLE_COILS
                             THEN NotWritable(address) ELSE NoMessageS,
                 calls |-> (IF route THEN AskCalls ELSE <<>>) \o AskCalls
                           \o (IF wrote THEN <<"write_coil">> ELSE <<>>)]
    /\ UNCHANGED <<not_service, s_made, s_client, s_flag>>

\* write_coil(address, value): refuse when not connected, refuse an
\* address that is not writable, else write on the client.
ServiceWriteCoil(route, address, value, outcome) ==
    LET refused == ~ServiceIsConnected \/ address \notin WRITABLE_COILS
        raised == IF ~ServiceIsConnected THEN "ConnectionError"
                  ELSE IF address \notin WRITABLE_COILS THEN "ValueError"
                  ELSE IF outcome \in {"True", "False"} THEN "None"
                  ELSE outcome
    IN
    /\ s_log' = IF refused THEN s_log ELSE Append(s_log, address)
    /\ s_seen' = (s_seen \/ raised = "None")
    /\ s_out' = [op |-> IF route THEN "POST /plc/write-coil" ELSE "write_coil",
                 address |-> address, value |-> value,
                 was_connected |-> ServiceIsConnected,
                 raised |-> raised,
                 status |-> IF route THEN RouteStatus(raised) ELSE 0,
                 message |-> IF raised = "ValueError" THEN NotWritable(address)
                             ELSE IF raised = "None"
                             THEN [NoMessageS EXCEPT !.text = outcome]
                             ELSE NoMessageS,
                 calls |-> (IF route THEN AskCalls ELSE <<>>) \o AskCalls
                           \o (IF refused THEN <<>> ELSE <<"write_coil">>)]
    /\ UNCHANGED <<not_service, s_made, s_client, s_flag>>

\* plc_service.write_coil called directly.
S_WriteCoil ==
    /\ Len(s_log) < MaxWrites
    /\ \E address \in CoilAddresses, value \in BOOLEAN, outcome \in WriteOutcomes :
          ServiceWriteCoil(FALSE, address, value, outcome)

\* POST /plc/write-coil: 503 when not connected, else the service's
\* write_coil with what it raises turned into a status.
R_WriteCoil ==
    /\ Len(s_log) < MaxWrites
    /\ \E address \in CoilAddresses, value \in BOOLEAN, outcome \in WriteOutcomes :
          IF ~ServiceIsConnected
          THEN /\ s_out' = [NoServiceCall EXCEPT
                              !.op = "POST /plc/write-coil",
                              !.address = address, !.value = value,
                              !.raised = "HTTPException", !.status = 503,
                              !.calls = AskCalls]
               /\ UNCHANGED <<not_service, s_made, s_client, s_flag, s_seen, s_log>>
          ELSE ServiceWriteCoil(TRUE, address, value, outcome)

\* read_io(): refuse when not connected, else read the coils and the
\* registers from the client; no write.
S_ReadIo ==
    /\ \E outcome \in {"values", "ConnectionError", "IOError"} :
          LET raised == IF ~ServiceIsConnected THEN "ConnectionError"
                        ELSE IF outcome = "values" THEN "None" ELSE outcome
          IN
          /\ s_seen' = (s_seen \/ raised = "None")
          /\ s_out' = [NoServiceCall EXCEPT
                         !.op = "read_io",
                         !.was_connected = ServiceIsConnected,
                         !.raised = raised,
                         !.calls = AskCalls
                                   \o (IF ServiceIsConnected
                                       THEN <<"read_coils">> ELSE <<>>)
                                   \o (IF raised = "None"
                                       THEN <<"read_holding_registers">>
                                       ELSE <<>>)]
    /\ UNCHANGED <<not_service, s_made, s_client, s_flag, s_log>>

\* The service on its own.
InitService ==
    /\ MgrInit(MaxRetry)
    /\ retry_count = MaxRetry
    /\ retry_delay = 1
    /\ auto_reconnect
    /\ ~client_up
    /\ MockInit({TEMP_AMBIENT})
    /\ BeyondIdle

NextService ==
    \/ S_LinkDrop
    \/ S_Connect
    \/ S_Disconnect
    \/ S_WriteCoil
    \/ R_WriteCoil
    \/ S_ReadIo

SpecService == InitService /\ [][NextService]_vars

\* ----------------------------------------------- NetworkScanner, scanning

\* The candidates of the scan: range(start, end + 1).
Candidates == DOMAIN sc_task

Queued == {i \in Candidates : sc_task[i] = "queued"}
InFlight == {i \in Candidates : sc_task[i] = "running"}

\* The least element of a non-empty set of integers.
Least(S) == CHOOSE i \in S : \A j \in S : i <= j

\* DeviceInfo(ip, port, response_time_ms=r.response_time_ms or 0.0)
DeviceInfo(r) ==
    [ip |-> r.ip, port |-> r.port,
     response_time_ms |-> IF r.response_time_ms = -1 THEN 0
                          ELSE r.response_time_ms]

\* The online results of a list, as devices, in the list's order.
RECURSIVE OnlineDevices(_)
OnlineDevices(results) ==
    IF results = <<>> THEN <<>>
    ELSE LET rest == OnlineDevices(Tail(results))
         IN IF Head(results).status = "online"
            THEN <<DeviceInfo(Head(results))>> \o rest
            ELSE rest

\* A device put into a list sorted by response time, behind its equals.
RECURSIVE Insert(_, _)
Insert(d, sorted) ==
    IF sorted = <<>> THEN <<d>>
    ELSE IF d.response_time_ms < Head(sorted).response_time_ms
    THEN <<d>> \o sorted
    ELSE <<Head(sorted)>> \o Insert(d, Tail(sorted))

\* A sort that leaves the list as the probes completed.
RECURSIVE SortByResponseTime_Unsorted(_)
SortByResponseTime_Unsorted(devices) == devices

\* online_devices.sort(key=lambda d: d.response_time_ms): stable.
RECURSIVE SortByResponseTime(_)
SortByResponseTime(devices) ==
    IF devices = <<>> THEN <<>>
    ELSE Insert(devices[Len(devices)],
                SortByResponseTime(SubSeq(devices, 1, Len(devices) - 1)))

\* get_online_devices calls scan_subnet, which submits one probe for each
\* candidate of range(start, end + 1) to a pool of max_workers threads.
Submit(start, end, workers, route) ==
    /\ sc_phase' = "scanning"
    /\ sc_cfg' = [sc_cfg EXCEPT !.start = start, !.end = end,
                                !.max_workers = workers, !.route = route]
    /\ sc_task' = [i \in start..end |-> "queued"]
    /\ sc_fate' = [i \in start..end |-> NoFate]
    /\ sc_res' = [i \in start..end |-> NoResult]
    /\ sc_results' = <<>>
    /\ UNCHANGED <<not_scanner, sc_out>>

\* A caller of the scanner calls get_online_devices.
Scan_Submit ==
    \E start \in 1..MaxSuffix, end \in 1..MaxSuffix, workers \in 1..MaxWorkers :
       /\ sc_phase = "idle"
       /\ Submit(start, end, workers, FALSE)

\* A scan_network that scans whatever the range.
ScanNetwork_NoRangeCheck(start, end, workers) ==
    Submit(start, end, workers, TRUE)

\* POST /scan-network: 400 when start > end, else a scanner is made and
\* get_online_devices called.
ScanNetwork(start, end, workers) ==
    IF start > end
    THEN /\ sc_phase' = "rejected"
         /\ sc_cfg' = [sc_cfg EXCEPT !.start = start, !.end = end,
                                       !.max_workers = workers, !.route = TRUE]
         /\ sc_out' = [NoScanOutput EXCEPT !.status = 400]
         /\ UNCHANGED <<not_scanner, sc_task, sc_fate, sc_res, sc_results>>
    ELSE Submit(start, end, workers, TRUE)

R_ScanNetwork ==
    \E start \in 1..MaxSuffix, end \in 1..MaxSuffix, workers \in 1..MaxWorkers :
       /\ sc_phase = "idle"
       /\ ScanNetwork(start, end, workers)

\* The pool runs while scan_subnet collects and while it leaves the with
\* block, which waits for the threads.
PoolRuns == sc_phase \in {"scanning", "unwinding"}

\* A network where the hosts of even suffix accept connections and the
\* others do not answer.
Fixture(i) ==
    IF i % 2 = 0 THEN Connected(10) ELSE Raises("TimeoutError", M_TimedOut)

\* The fates followed for candidate i: on the fixture its one fate, else
\* every fate for the first candidate and the fates of whole scans for the
\* others.
FatesOf(i) ==
    IF sc_cfg.net = "fixture" THEN {Fixture(i)}
    ELSE IF i = sc_cfg.start THEN ProbeFates ELSE ScanFates

\* A pool whose threads end after one probe each.
Pool_StartProbe_ThreadsEnd ==
    /\ PoolRuns
    /\ Queued # {}
    /\ Cardinality(Candidates \ Queued) < sc_cfg.max_workers
    /\ sc_task' = [sc_task EXCEPT ![Least(Queued)] = "running"]
    /\ UNCHANGED <<not_scanner, sc_cfg, sc_phase, sc_fate, sc_res, sc_results,
                   sc_out>>

\* A pool that starts a queued probe whether or not a thread is free.
Pool_StartProbe_Uncapped ==
    /\ PoolRuns
    /\ Queued # {}
    /\ sc_task' = [sc_task EXCEPT ![Least(Queued)] = "running"]
    /\ UNCHANGED <<not_scanner, sc_cfg, sc_phase, sc_fate, sc_res, sc_results,
                   sc_out>>

\* A thread of the pool takes the oldest queued probe: the pool has
\* max_workers threads and each runs one probe at a time.
Pool_StartProbe ==
    /\ PoolRuns
    /\ Queued # {}
    /\ Cardinality(InFlight) < sc_cfg.max_workers
    /\ sc_task' = [sc_task EXCEPT ![Least(Queued)] = "running"]
    /\ UNCHANGED <<not_scanner, sc_cfg, sc_phase, sc_fate, sc_res, sc_results,
                   sc_out>>

\* A running _probe_ip returns its ScanResult and the future is done, or
\* raises and the future has failed.
Probe_Return ==
    \E i \in InFlight :
    \E fate \in FatesOf(i) :
       /\ PoolRuns
       /\ sc_fate' = [sc_fate EXCEPT ![i] = fate]
       /\ IF ProbeEscapes(fate) = "None"
          THEN /\ sc_task' = [sc_task EXCEPT ![i] = "done"]
               /\ sc_res' = [sc_res EXCEPT ![i] = ProbeIp(Ip(i), fate)]
          ELSE /\ sc_task' = [sc_task EXCEPT ![i] = "failed"]
               /\ UNCHANGED sc_res
       /\ UNCHANGED <<not_scanner, sc_cfg, sc_phase, sc_results, sc_out>>

\* A collection that yields a done future and may yield it again.
Scan_Collect_Again ==
    \E i \in Candidates :
       /\ sc_phase = "scanning"
       /\ sc_task[i] \in {"done", "yielded"}
       /\ Len(sc_results) <= Cardinality(Candidates)
       /\ sc_task' = [sc_task EXCEPT ![i] = "yielded"]
       /\ sc_results' = Append(sc_results, sc_res[i])
       /\ UNCHANGED <<not_scanner, sc_cfg, sc_phase, sc_fate, sc_res, sc_out>>

\* as_completed yields a future that is done or failed and was not
\* yielded before; the calling thread appends its result, or
\* future.result() raises what the probe raised and the loop is left.
Scan_Collect ==
    \E i \in Candidates :
       /\ sc_phase = "scanning"
       /\ sc_task[i] \in {"done", "failed"}
       /\ sc_task' = [sc_task EXCEPT ![i] = "yielded"]
       /\ IF sc_task[i] = "done"
          THEN /\ sc_results' = Append(sc_results, sc_res[i])
               /\ UNCHANGED sc_phase
          ELSE /\ sc_phase' = "unwinding"
               /\ UNCHANGED sc_results
       /\ UNCHANGED <<not_scanner, sc_cfg, sc_fate, sc_res, sc_out>>

\* What get_online_devices returns, and the ScanResponse the route makes
\* of it: online_count=len(devices).
ScanOutput(devices, count, route) ==
    [devices |-> devices, count |-> count,
     online_count |-> IF route THEN Len(devices) ELSE -1,
     status |-> IF route THEN 200 ELSE 0]

\* scan_subnet leaves the with block once no probe is queued or running.
\* When as_completed was exhausted, every future yielded, it returns, and
\* get_online_devices filters and sorts; when future.result() raised,
\* scan_subnet and get_online_devices raise.
Scan_Return ==
    /\ PoolRuns
    /\ \A i \in Candidates : sc_task[i] \in {"yielded", "done", "failed"}
    /\ sc_phase = "scanning" => \A i \in Candidates : sc_task[i] = "yielded"
    /\ IF sc_phase = "scanning"
       THEN /\ sc_phase' = "returned"
            /\ sc_out' = ScanOutput(SortByResponseTime(OnlineDevices(sc_results)),
                                    Len(sc_results), sc_cfg.route)
       ELSE /\ sc_phase' = "raised"
            /\ sc_out' = [NoScanOutput EXCEPT
                             !.status = IF sc_cfg.route THEN 500 ELSE 0]
    /\ UNCHANGED <<not_scanner, sc_cfg, sc_task, sc_fate, sc_res, sc_results>>

InitScan ==
    /\ MgrInit(MaxRetry)
    /\ retry_count = MaxRetry
    /\ retry_delay = 1
    /\ auto_reconnect
    /\ ~client_up
    /\ MockInit({TEMP_AMBIENT})
    /\ BeyondIdle

NextScan ==
    \/ Scan_Submit
    \/ R_ScanNetwork
    \/ Pool_StartProbe
    \/ Probe_Return
    \/ Scan_Collect
    \/ Scan_Return

SpecScan == InitScan /\ [][NextScan]_vars

\* The scanner before a scan of the fixture.
InitScanFair ==
    /\ MgrInit(MaxRetry)
    /\ retry_count = MaxRetry
    /\ retry_delay = 1
    /\ auto_reconnect
    /\ ~client_up
    /\ MockInit({TEMP_AMBIENT})
    /\ FactoryInit({NoEnvironment})
    /\ ServiceInit
    /\ sc_cfg = [NoScan EXCEPT !.net = "fixture"]
    /\ sc_phase = "idle"
    /\ sc_task = <<>>
    /\ sc_fate = <<>>
    /\ sc_res = <<>>
    /\ sc_results = <<>>
    /\ sc_out = NoScanOutput

\* Scans of the fixture with fair threads: a free thread takes a queued
\* probe, a probe ends (its connection attempt returns or times out), and
\* the calling thread goes on.
SpecScanFair ==
    /\ InitScanFair
    /\ [][NextScan]_vars
    /\ WF_vars(Pool_StartProbe)
    /\ WF_vars(Probe_Return)
    /\ WF_vars(Scan_Collect)
    /\ WF_vars(Scan_Return)

\* ------------------------------------------------------------------ claims

\* ensure_connected was called directly and has returned.
EnsureDone == op = "ensure_connected" /\ pc = "done"

\* read_with_retry or write_with_retry has returned or raised.
RetryDone == op \in RetryOps /\ pc = "done"

\* C1: right after a successful client.connect() in ensure_connected, and
\* right after a closure call that succeeds in read_with_retry or
\* write_with_retry (a write closure: returns a true value),
\* consecutive_failures is 0, whatever it was before.
C1_SuccessResetsFailures ==
    ev \in {"connect_ok", "func_ok"} => consecutive_failures = 0

\* An operation that began with failures counted, reconnected, saw its
\* closure fail (counting again) and then succeed.
C1_Witness ==
    /\ ev = "func_ok"
    /\ obs.cf0 > 0
    /\ obs.connects > 0
    /\ obs.func_fails > 0

\* C2: ensure_connected with auto_reconnect, retry_count >= 1 and a
\* disconnected client whose connect() failed k < retry_count times before
\* succeeding returns True after exactly k+1 connect() calls, with
\* consecutive_failures 0 and last_error cleared.
C2_ConnectAfterFailures ==
    (/\ EnsureDone
     /\ auto_reconnect
     /\ ~obs.saw_up
     /\ obs.connect_fails < retry_count)
    => /\ result = "True"
       /\ obs.connects = obs.connect_fails + 1
       /\ consecutive_failures = 0
       /\ last_error = NoError

\* The spec's scenario (retry_count 3, two failures, then success), begun
\* with failures counted and an error remembered.
C2_Witness ==
    /\ EnsureDone
    /\ retry_count = 3
    /\ obs.connect_fails = 2
    /\ obs.connects = 3
    /\ result = "True"
    /\ obs.cf0 > 0
    /\ obs.le0 # NoError

\* C3 (as claimed): in ensure_connected every failed connect attempt
\* increments consecutive_failures: a call in which j attempts failed and
\* none succeeded leaves the counter j higher, and each backoff slept is
\* computed from the counter that includes the failures seen so far.
C3_EachFailureCounts ==
    /\ (EnsureDone /\ obs.connect_fails >= 1 /\ result = "False")
          => consecutive_failures = obs.cf0 + obs.connect_fails
    /\ (op = "ensure_connected" /\ ev = "ec_sleep")
          => obs.last_delay =
                CalculateBackoff(retry_delay, obs.cf0 + obs.connect_fails)

\* C4: ensure_connected with auto_reconnect false and a client that
\* reports not connected returns False with no connect() call and no
\* sleep, and leaves consecutive_failures and last_error as they were.
C4_NoAutoReconnect ==
    (EnsureDone /\ ~auto_reconnect /\ ~obs.saw_up)
    => /\ result = "False"
       /\ obs.connects = 0
       /\ obs.sleeps = 0
       /\ consecutive_failures = obs.cf0
       /\ last_error = obs.le0

C4_Witness ==
    /\ EnsureDone
    /\ ~auto_reconnect
    /\ ~obs.saw_up
    /\ result = "False"
    /\ obs.cf0 > 0
    /\ obs.le0 # NoError

\* C5: ensure_connected on a client that already reports connected returns
\* True and marks the manager connected, with no connect() call and no
\* sleep; consecutive_failures and last_error are left as they were.
C5_AlreadyConnected ==
    (EnsureDone /\ obs.saw_up)
    => /\ result = "True"
       /\ connected
       /\ obs.connects = 0
       /\ obs.sleeps = 0
       /\ consecutive_failures = obs.cf0
       /\ last_error = obs.le0

C5_Witness ==
    /\ EnsureDone
    /\ obs.saw_up
    /\ result = "True"
    /\ obs.cf0 > 0
    /\ obs.le0 # NoError

\* C6: ensure_connected (auto_reconnect, client disconnected) in which no
\* connect attempt succeeds returns False, having called connect() exactly
\* retry_count times, and leaves the manager disconnected.
C6_ExhaustedReturnsFalse ==
    (EnsureDone /\ auto_reconnect /\ ~obs.saw_up /\ obs.last_conn # "ok")
    => /\ result = "False"
       /\ obs.connects = retry_count
       /\ obs.connect_fails = retry_count
       /\ ~connected
       /\ ~IsConnected

C6_Witness ==
    /\ EnsureDone
    /\ auto_reconnect
    /\ retry_count = 3
    /\ obs.connect_fails = 3
    /\ result = "False"

\* C7 (as claimed): after ensure_connected has exhausted its attempts,
\* last_error records the error of the last failed attempt: the exception
\* it raised, or, when connect() returned false, at least some error.
C7_LastErrorRecorded ==
    (EnsureDone /\ obs.connect_fails >= 1 /\ result = "False")
    => IF obs.last_conn \in ConnectExceptions
       THEN last_error = obs.last_conn
       ELSE last_error # NoError

\* C8: read/write_with_retry never invoke the closure more than
\* retry_count times; when every ensure_connected succeeded and the
\* closure failed with retryable errors fewer than retry_count times, the
\* call returns the closure's result; a ConnectionError or IOError reaches
\* the caller only when retry_count attempts have failed.
C8_RetriesAbsorbed ==
    op \in RetryOps =>
       /\ obs.funcs <= retry_count
       /\ (/\ pc = "done"
           /\ obs.ensure_fails = 0
           /\ obs.func_fails < retry_count
           /\ exc # FuncValueError)
          => result = (IF op = "read_with_retry" THEN "value" ELSE "True")
       /\ (pc = "done" /\ result \in ConnectionErrors \cup IOErrors)
          => obs.func_fails + obs.ensure_fails = retry_count

\* Two closure failures, a reconnect, and the third invocation succeeds.
C8_Witness ==
    /\ RetryDone
    /\ retry_count = 3
    /\ obs.func_fails = 2
    /\ obs.funcs = 3
    /\ obs.connects >= 1
    /\ result = "value"

\* C9 (as claimed): once ensure_connected() has returned failure inside
\* read/write_with_retry, the ConnectionError goes straight to the caller:
\* no sleep, no further ensure_connected call, no closure call follows.
C9_RaisedImmediately ==
    (op \in RetryOps /\ obs.ensure_fails >= 1)
    => /\ obs.ensure_fails = 1
       /\ pc \in {"rw_connerr", "done"}
       /\ pc = "done" => result = UnableToConnect

\* C9 (amended): when ensure_connected() returns failure the closure is
\* not invoked in that attempt and the ConnectionError("Unable to
\* connect") is handled as a lost connection; it reaches the caller only
\* from the last of the retry_count attempts.
C9_RaisedOnLastAttempt ==
    op \in RetryOps =>
       /\ obs.funcs + obs.ensure_fails <= obs.ensures
       /\ (pc = "rw_connerr" /\ exc = UnableToConnect)
          => obs.funcs + obs.ensure_fails = obs.ensures
       /\ (ev = "except_connection_error" /\ exc = UnableToConnect)
          => ~connected /\ last_error = ConnectionLost
       /\ (pc = "done" /\ result = UnableToConnect)
          => /\ attempt = retry_count - 1
             /\ obs.ensures = retry_count

\* A failed ensure_connected was absorbed: a later attempt succeeded.
C9_Witness ==
    /\ RetryDone
    /\ obs.ensure_fails >= 1
    /\ result = "value"

\* C10: the handler of a ConnectionError raised by the closure marks the
\* manager disconnected and adds one to consecutive_failures; with
\* attempts left it sleeps and the next attempt begins with
\* ensure_connected(), the closure being invoked only after that call
\* returned True; in the last attempt the ConnectionError is re-raised.
C10_ConnectionErrorHandling ==
    [][/\ (pc = "rw_connerr" /\ exc = FuncConnectionError /\ pc' # pc)
          => /\ ~connected'
             /\ consecutive_failures' = consecutive_failures + 1
             /\ IF attempt < retry_count - 1
                THEN pc' = "rw_sleep"
                ELSE pc' = "done" /\ result' = FuncConnectionError
       /\ (pc = "rw_sleep" /\ pc' # pc)
          => /\ pc' = "ec_entry"
             /\ attempt' = attempt + 1
             /\ obs'.ensures = obs.ensures + 1
             /\ obs'.funcs = obs.funcs
       /\ (obs'.funcs = obs.funcs + 1)
          => pc = "rw_call" /\ ec_ret
      ]_vars

\* The closure raised ConnectionError in every one of three attempts.
C10_Witness ==
    /\ RetryDone
    /\ retry_count = 3
    /\ result = FuncConnectionError
    /\ obs.funcs = 3
    /\ obs.ensures = 3
    /\ ~connected

\* C11: the handler of an IOError (not a ConnectionError) raised by the
\* closure leaves the manager's connected flag and the client's session
\* as they are, adds one to consecutive_failures and re-raises only in
\* the last attempt; no operation of read/write_with_retry calls
\* client.disconnect(), and an attempt that finds the client connected
\* calls no connect() before it invokes the closure.
C11_IOErrorKeepsSession ==
    [][/\ (pc = "rw_ioerr" /\ exc = FuncIOError /\ pc' # pc)
          => /\ connected' = connected
             /\ client_up' = client_up
             /\ consecutive_failures' = consecutive_failures + 1
             /\ last_error' = FuncIOError
             /\ IF attempt < retry_count - 1
                THEN pc' = "rw_sleep"
                ELSE pc' = "done" /\ result' = FuncIOError
       /\ (op \in RetryOps /\ pc = "ec_entry" /\ client_up /\ pc' # pc)
          => /\ pc' = "rw_call"
             /\ obs'.connects = obs.connects
       /\ (op' \in RetryOps) => obs'.disconnects = 0
      ]_vars

\* An IOError on a live session was retried on that session and the retry
\* succeeded: still connected, no connect() call made.
C11_Witness ==
    /\ RetryDone
    /\ result = "value"
    /\ last_error = FuncIOError
    /\ obs.func_fails >= 1
    /\ obs.connects = 0
    /\ obs.le0 = NoError
    /\ IsConnected

\* C12: in write_with_retry a closure that returns a false value raises
\* IOError("Write operation returned False") into the IOError handler
\* (failure counted, backoff, retry; raised to the caller in the last
\* attempt); the call returns True only from an invocation that returned
\* a true value, and returns False only when retry_count is 0.
C12_FalseWriteIsIOError ==
    [][/\ (op = "write_with_retry" /\ pc = "rw_call" /\ ev' = "func_false")
          => pc' = "rw_ioerr" /\ exc' = WriteReturnedFalse
       /\ (pc = "rw_ioerr" /\ exc = WriteReturnedFalse /\ pc' # pc)
          => /\ consecutive_failures' = consecutive_failures + 1
             /\ last_error' = WriteReturnedFalse
             /\ IF attempt < retry_count - 1
                THEN pc' = "rw_sleep"
                ELSE pc' = "done" /\ result' = WriteReturnedFalse
       /\ (op' = "write_with_retry" /\ pc # "done" /\ pc' = "done"
              /\ result' = "True")
          => pc = "rw_call" /\ ev' = "func_ok"
       /\ (op' = "write_with_retry" /\ pc' = "done" /\ result' = "False")
          => retry_count = 0 /\ obs'.funcs = 0
      ]_vars

\* Three invocations, the last one returning false: IOError raised.
C12_Witness ==
    /\ op = "write_with_retry"
    /\ pc = "done"
    /\ retry_count = 3
    /\ obs.funcs = 3
    /\ result = WriteReturnedFalse
    /\ last_error = WriteReturnedFalse

\* C13: an exception of the closure that is neither ConnectionError nor
\* IOError leaves read/write_with_retry at once: the invocation that
\* raised it is the last one, no sleep follows, and consecutive_failures,
\* last_error and the connected flag are as they were before it.
C13_OtherErrorNotRetried ==
    [][(op \in RetryOps /\ pc = "rw_call" /\ exc' = FuncValueError)
          => /\ pc' = "done"
             /\ result' = FuncValueError
             /\ obs'.funcs = obs.funcs + 1
             /\ obs'.sleeps = obs.sleeps
             /\ UNCHANGED <<mgr, client_up>>
      ]_vars

\* The first invocation raised it, with failures already counted.
C13_Witness ==
    /\ RetryDone
    /\ result = FuncValueError
    /\ obs.funcs = 1
    /\ obs.sleeps = 0
    /\ consecutive_failures > 0
    /\ consecutive_failures = obs.cf0

\* What the backoff is for every configured delay and every counter.
BackoffLaw ==
    \A delay \in RetryDelays, n \in 0..MaxBackoffN :
       /\ CalculateBackoff(delay, n) =
             (IF n >= 5
              THEN (IF 32 * delay <= 30 THEN 32 * delay ELSE 30)
              ELSE (IF delay * 2^n <= 30 THEN delay * 2^n ELSE 30))
       /\ CalculateBackoff(delay, n) <= MAX_BACKOFF_DELAY
       /\ CalculateBackoff(delay, n) <= CalculateBackoff(delay, n + 1)
       /\ n >= 5 => CalculateBackoff(delay, n) = CalculateBackoff(delay, 5)

\* C14: for every counter n in 0..MaxBackoffN and the manager's base
\* delay, _calculate_backoff is min(retry_delay * 2^min(n,5), 30), never
\* above 30, non-decreasing in n and constant from n = 5 on; every delay
\* slept is that value for the counter at the time.
C14_Backoff ==
    /\ BackoffLaw
    /\ ev \in {"ec_sleep", "rw_sleep"}
          => obs.last_delay = CalculateBackoff(retry_delay, consecutive_failures)

\* A sleep at the cap, slept with more than five failures counted.
C14_Witness ==
    /\ ev = "rw_sleep"
    /\ consecutive_failures > 5
    /\ retry_delay = 1
    /\ obs.last_delay = MAX_BACKOFF_DELAY

\* C15: entering a with-block on the manager calls ensure_connected();
\* leaving it, normally or by an exception of the body, calls
\* client.disconnect() exactly once, swallows what that call raises,
\* leaves the manager disconnected, and hands the body's exception on to
\* the caller.
C15_ScopedUse ==
    /\ ev = "enter"
          => /\ scope = "in"
             /\ op = "ensure_connected"
             /\ pc = "ec_entry"
             /\ obs.ensures = 1
    /\ ev \in ExitEvents
          => /\ scope = "out"
             /\ op = "__exit__"
             /\ obs.disconnects = 1
             /\ ~connected
             /\ ~IsConnected
             /\ result = (IF ev \in {ExitEvent(TRUE, FALSE), ExitEvent(TRUE, TRUE)}
                          THEN BodyError ELSE "None")

\* The body raised, with failures counted, and client.disconnect() raised
\* too: the body's exception is the one the caller sees.
C15_Witness ==
    /\ ev = ExitEvent(TRUE, TRUE)
    /\ result = BodyError
    /\ obs.cf0 > 0
    /\ obs.disconnects = 1
    /\ ~connected

\* A step in which get_status() is called.
GetStatusStep == op' = "get_status" /\ (op # "get_status" \/ obs' # obs)

\* C16: is_connected is true only while the client's is_connected() is
\* true, and the 'connected' of a get_status() snapshot is true only if
\* the client reports connected when the snapshot is taken.
C16_ConnectedNeedsClient ==
    /\ [](IsConnected => client_up)
    /\ [][GetStatusStep => (obs'.status[1].connected => client_up')]_vars

\* The cached flag is still set after the link dropped, and the snapshot
\* says not connected.
C16_Witness ==
    /\ op = "get_status"
    /\ connected
    /\ ~client_up
    /\ obs.status = <<GetStatus>>
    /\ ~obs.status[1].connected

\* C17: get_status() changes nothing of the manager or the client and
\* makes no connect, disconnect or closure call; retry_count, retry_delay
\* and auto_reconnect are changed by no step at all, and the snapshot
\* carries them.
C17_StatusReadOnly ==
    [][/\ cfg' = cfg
       /\ GetStatusStep
          => /\ mgr' = mgr
             /\ client_up' = client_up
             /\ obs'.connects = 0
             /\ obs'.disconnects = 0
             /\ obs'.funcs = 0
             /\ obs'.status[1].retry_count = retry_count
             /\ obs'.status[1].retry_delay = retry_delay
             /\ obs'.status[1].auto_reconnect = auto_reconnect
             /\ obs'.status[1].consecutive_failures = consecutive_failures
      ]_vars

\* A snapshot of a connected manager that has counted failures and
\* remembers a lost connection.
C17_Witness ==
    /\ op = "get_status"
    /\ Len(obs.status) = 1
    /\ obs.status[1].connected
    /\ obs.status[1].consecutive_failures > 0
    /\ obs.status[1].last_error = "Connection lost"

\* C18: on a mock reached from the default one by write_coil and
\* write_register calls and the helpers built on them, coil motor_running
\* is the negation of coil motor_stopped.
C18_RunningComplementsStopped ==
    m_coils[COIL_MOTOR_RUNNING] = ~m_coils[COIL_MOTOR_STOPPED]

\* C19: when a write has turned the motor_running coil off, the read of
\* the holding registers that follows it returns motor_speed 0 and
\* motor_current 0.
C19_TurnOffZeroesMotor ==
    (/\ m_obs.op = "read_holding_registers"
     /\ ~m_obs.raised
     /\ m_obs.prev_off)
    => /\ m_regs[REGISTER_MOTOR_SPEED] = 0
       /\ m_regs[REGISTER_MOTOR_CURRENT] = 0

\* C20: each read_holding_registers, read_coils and read_state on a
\* connected mock runs exactly one _simulate_behavior step.
C20_OneStepPerRead ==
    (/\ m_obs.op \in {"read_holding_registers", "read_coils", "read_state"}
     /\ ~m_obs.raised)
    => m_obs.steps = 1

\* A step in which a read of the holding registers ran one simulation
\* step.
PollReadStep ==
    /\ m_obs'.op = "read_holding_registers"
    /\ ~m_obs'.raised

\* C21: with the temperature register never written, the temperature
\* stays within [250, 800]; a simulation step with the motor running at a
\* speed above 0 never lowers it and never takes it above 800; a step with
\* the motor off never raises it and never takes it below 250; and if the
\* motor is kept off on a connected mock that is read again and again, the
\* temperature ends at 250 and stays there.
C21_Temperature ==
    /\ [](m_regs[REGISTER_TEMPERATURE] \in TEMP_AMBIENT..TEMP_MAX)
    /\ [][PollReadStep =>
            IF MotorOn
            THEN /\ m_regs'[REGISTER_TEMPERATURE] >= m_regs[REGISTER_TEMPERATURE]
                 /\ m_regs'[REGISTER_TEMPERATURE] <= TEMP_MAX
            ELSE /\ m_regs'[REGISTER_TEMPERATURE] <= m_regs[REGISTER_TEMPERATURE]
                 /\ m_regs'[REGISTER_TEMPERATURE] >= TEMP_AMBIENT]_vars
    /\ <>[](m_connected /\ ~MotorOn)
          => <>[](m_regs[REGISTER_TEMPERATURE] = TEMP_AMBIENT)

\* A read that left a running motor at the ceiling.
C21_Witness ==
    /\ m_obs.op = "read_holding_registers"
    /\ ~m_obs.raised
    /\ MotorOn
    /\ m_regs[REGISTER_TEMPERATURE] = TEMP_MAX

\* C22: a simulation step with the motor off never raises motor_current,
\* and if the motor is kept off on a connected mock that is read again and
\* again, motor_current ends at 0, however the motor was turned off.
C22_CurrentDropsWhenOff ==
    /\ [][(PollReadStep /\ ~MotorOn) =>
            m_regs'[REGISTER_MOTOR_CURRENT] <= m_regs[REGISTER_MOTOR_CURRENT]]_vars
    /\ <>[](m_connected /\ ~MotorOn)
          => <>[](m_regs[REGISTER_MOTOR_CURRENT] = 0)

\* C23: connect() returns True and leaves the mock connected;
\* is_connected() returns the flag, changes nothing and returns the same
\* value when called again; disconnect() raises nothing, leaves the mock
\* disconnected whether or not it was connected, and a second disconnect
\* changes nothing more; none of the three changes a register or a coil.
C23_ConnectionCapability ==
    [][/\ m_obs'.op = "connect"
          => /\ m_connected'
             /\ m_obs'.ret = "True"
       /\ m_obs'.op = "is_connected"
          => /\ m_connected' = m_connected
             /\ m_obs'.ret = PyBool(m_connected)
             /\ m_obs.op = "is_connected" => m_obs'.ret = m_obs.ret
       /\ m_obs'.op = "disconnect"
          => /\ ~m_connected'
             /\ ~m_obs'.raised
             /\ m_obs.op = "disconnect" => m_connected' = m_connected
       /\ m_obs'.op \in ConnOps
          => /\ m_regs' = m_regs
             /\ m_coils' = m_coils
             /\ ~m_obs'.raised
      ]_vars

\* The second of two disconnects in a row, on a mock whose store the
\* calls made before have changed.
C23_Witness ==
    /\ m_obs.op = "disconnect"
    /\ m_obs.prev = "disconnect"
    /\ ~m_connected
    /\ m_regs[REGISTER_MOTOR_SPEED] > 0
    /\ m_coils[COIL_MOTOR_RUNNING]

\* The last call was a call of the factory.
FactoryCalled == f_out.op \in {"create_plc_client", "create_managed_client"}

\* The kind the call asked for is text, and lower-cased and stripped it
\* is none of the recognised kinds.
KindOutside(text) ==
    /\ text # None
    /\ text # <<>>
    /\ Strip(Lower(text)) \notin RecognisedKinds

\* C24 as stated: a call with a kind outside the recognised set raises
\* an error that lists the valid kinds and constructs no client, whatever
\* the other arguments and the environment are.
C24_UnknownKindAlwaysFails ==
    (FactoryCalled /\ KindOutside(f_out.plc_type))
    => /\ f_out.raised = "ValueError"
       /\ f_out.message.valid = ValidTypes
       /\ f_out.made = 0

\* USE_MOCK_PLC is set to "true" in any case of letters.
UseMock == f_env.USE_MOCK_PLC # None /\ Lower(f_env.USE_MOCK_PLC) = T_true

\* Every number the call did not pass is unset in the environment or set
\* to a number.
NumbersParse ==
    /\ f_out.port # 0 \/ f_env.PLC_PORT = None \/ ParsesInt(f_env.PLC_PORT)
    /\ f_out.timeout # 0 \/ f_env.PLC_TIMEOUT = None
          \/ ParsesFloat(f_env.PLC_TIMEOUT)
    /\ f_out.retries # 0 \/ f_env.PLC_RETRY_COUNT = None
          \/ ParsesInt(f_env.PLC_RETRY_COUNT)

\* C24 amended: a call with a kind outside the recognised set constructs
\* no client and raises ValueError, whose message names the kind and lists
\* the valid kinds when the numbers read from the environment parse,
\* unless USE_MOCK_PLC is "true": then the kind is ignored and, the numbers
\* parsing, a MockPLC is returned.
C24_UnknownKindFailsUnlessMockForced ==
    (FactoryCalled /\ KindOutside(f_out.plc_type))
    => /\ ~NumbersParse
          => /\ f_out.raised = "ValueError"
             /\ f_out.made = 0
       /\ (NumbersParse /\ ~UseMock)
          => /\ f_out.raised = "ValueError"
             /\ f_out.message = UnknownPlcType(Strip(Lower(f_out.plc_type)))
             /\ f_out.message.valid = <<K_mock, K_micro820, K_factoryio_micro820>>
             /\ f_out.made = 0
       /\ (NumbersParse /\ UseMock)
          => /\ f_out.raised = "None"
             /\ f_out.made = 1
             /\ f_clients[Len(f_clients)].client.class = "MockPLC"

\* A misspelt kind refused, in an environment that sets PLC_TYPE to a
\* kind that is recognised.
C24_Witness ==
    /\ f_out.op = "create_plc_client"
    /\ f_out.plc_type = K_mock_typo
    /\ f_env.PLC_TYPE = K_micro820
    /\ f_out.raised = "ValueError"
    /\ f_out.message.plc_type = K_mock_typo
    /\ f_clients = <<>>

\* C25: a client or manager the factory returned is not connected and no
\* connect() has been called on it, until the caller or the manager
\* connects it: right after the call, and for as long as nobody dialled.
C25_FactoryNeverDials ==
    /\ \A i \in DOMAIN f_clients :
          LET e == f_clients[i] IN
          /\ e.client.connected => e.client.dialled
          /\ (e.managed /\ e.manager.connected) => e.client.dialled
    /\ (FactoryCalled /\ f_out.made = 1)
          => LET e == f_clients[Len(f_clients)] IN
             /\ ~e.client.connected
             /\ ~e.client.dialled
             /\ ~(e.manager.connected /\ e.client.connected)
             /\ e.managed <=> f_out.op = "create_managed_client"

\* A manager around a mock, just returned.
C25_Witness ==
    /\ f_out.op = "create_managed_client"
    /\ f_out.made = 1
    /\ f_clients[Len(f_clients)].managed
    /\ f_clients[Len(f_clients)].client.class = "MockPLC"
    /\ ~f_clients[Len(f_clients)].client.connected

\* The last call was a coil write, through the service or the route.
CoilWriteCalled == s_out.op \in {"write_coil", "POST /plc/write-coil"}

\* The call wrote on the client.
WroteOnClient == \E i \in DOMAIN s_out.calls : s_out.calls[i] = "write_coil"

\* C26: client.write_coil is called only with addresses in
\* {0..6, 15, 16, 17}: a coil write to any other address issues no write,
\* over any sequence of operations of the service.
C26_NoWriteOutsideWritable ==
    /\ \A i \in DOMAIN s_log : s_log[i] \in (0..6) \cup {15, 16, 17}
    /\ (CoilWriteCalled /\ s_out.address \notin (0..6) \cup {15, 16, 17})
          => /\ ~WroteOnClient
             /\ s_out.raised # "None"

\* Address 7 refused on a connected service that has written before.
C26_Witness ==
    /\ s_out.op = "write_coil"
    /\ s_out.address = 7
    /\ s_out.was_connected
    /\ s_out.raised = "ValueError"
    /\ Len(s_log) > 0

ScanReturned == sc_phase = "returned"

\* The places of the results list that hold the result of candidate i.
PlacesOf(i) == {k \in 1..Len(sc_results) : sc_results[k].ip = Ip(i)}

\* C28: when scan_subnet has returned for start <= end, its list holds
\* exactly end - start + 1 results, exactly one for each candidate address
\* (the one its probe returned), and no probe is still queued or running.
C28_OneResultPerCandidate ==
    (ScanReturned /\ sc_cfg.start <= sc_cfg.end) =>
       /\ Len(sc_results) = sc_cfg.end - sc_cfg.start + 1
       /\ \A i \in sc_cfg.start..sc_cfg.end :
             /\ Cardinality(PlacesOf(i)) = 1
             /\ \A k \in PlacesOf(i) : sc_results[k] = sc_res[i]
             /\ sc_task[i] \notin {"queued", "running"}
       /\ \A k \in 1..Len(sc_results) :
             \E i \in sc_cfg.start..sc_cfg.end : k \in PlacesOf(i)

\* A scan of more candidates than threads returned its results in another
\* order than the addresses.
C28_Witness ==
    /\ ScanReturned
    /\ sc_cfg.end - sc_cfg.start + 1 > sc_cfg.max_workers
    /\ sc_results[1].ip = Ip(sc_cfg.end)
    /\ sc_results[Len(sc_results)].ip = Ip(sc_cfg.start)

\* The candidates whose probe connected.
Succeeded ==
    {i \in Candidates : sc_fate[i].kind = "True" /\ sc_fate[i].close = "ok"}

\* C29: when get_online_devices has returned, its devices are exactly the
\* candidates whose probe connected, one DeviceInfo each with the probe's
\* latency, in non-decreasing order of response_time_ms, and its count is
\* the number of candidates; a scan of 1..MaxSuffix where only .2 connects
\* gives that count, one device, and the device is .2.
C29_OnlineSubsetSorted ==
    ScanReturned =>
       /\ Len(sc_out.devices) = Cardinality(Succeeded)
       /\ \A i \in Succeeded :
             \E k \in 1..Len(sc_out.devices) :
                /\ sc_out.devices[k].ip = Ip(i)
                /\ sc_out.devices[k].response_time_ms = sc_fate[i].ms
       /\ \A k \in 1..(Len(sc_out.devices) - 1) :
             sc_out.devices[k].response_time_ms
                <= sc_out.devices[k + 1].response_time_ms
       /\ sc_out.count = Cardinality(Candidates)
       /\ (sc_cfg.start = 1 /\ sc_cfg.end = MaxSuffix /\ Succeeded = {2}) =>
             /\ sc_out.count = MaxSuffix
             /\ Len(sc_out.devices) = 1
             /\ sc_out.devices[1].ip = Ip(2)

\* The slower of two online devices completed first and is returned last,
\* a third candidate did not connect.
C29_Witness ==
    /\ ScanReturned
    /\ Len(sc_results) = 3
    /\ Len(sc_out.devices) = 2
    /\ sc_results[1].status = "online"
    /\ sc_out.devices[2].ip = sc_results[1].ip
    /\ sc_out.devices[1].response_time_ms < sc_out.devices[2].response_time_ms
    /\ sc_out.count = 3

\* C30: the number of probes started and not yet completed never exceeds
\* max_workers.
C30_InFlightBounded ==
    Cardinality(InFlight) <= sc_cfg.max_workers

\* Every thread of the pool is probing while a candidate still waits.
C30_Witness ==
    /\ sc_phase = "scanning"
    /\ Cardinality(Candidates) > sc_cfg.max_workers
    /\ Cardinality(InFlight) = sc_cfg.max_workers
    /\ Queued # {}

\* The candidates whose probe met a fault: the constructor, connect() or
\* close() raised.
Faulted == {i \in Candidates : RaisedInProbe(sc_fate[i]) # "None"}

\* C31: no probe fault fails the scan: no future ever fails and
\* scan_subnet never raises; every completed probe, whatever it met, gave
\* a ScanResult for its own address with one of the four statuses; and a
\* returned scan holds the result of every candidate, faulted or not.
C31_ProbeFaultsContained ==
    /\ sc_phase \notin {"unwinding", "raised"}
    /\ \A i \in Candidates :
          /\ sc_task[i] # "failed"
          /\ sc_task[i] \in {"done", "yielded"} =>
                /\ sc_res[i].ip = Ip(i)
                /\ sc_res[i].status \in
                      {"online", "timeout", "connection_refused", "error"}
    /\ ScanReturned =>
          \A i \in Candidates :
             \E k \in 1..Len(sc_results) : sc_results[k] = sc_res[i]

\* A scan returned although one probe met an exception that is no OSError,
\* and another host of it is online.
C31_Witness ==
    /\ ScanReturned
    /\ \E i \in Faulted :
          /\ sc_fate[i].kind = "Exception"
          /\ sc_res[i].status = "error"
    /\ \E k \in 1..Len(sc_results) : sc_results[k].status = "online"

\* C32: with fair threads and probes that end, every submitted probe is
\* started, a scan that was submitted returns, and no probe of a returned
\* scan was left unstarted or unfinished.
C32_ScanCompletes ==
    /\ (sc_phase = "scanning") ~> ScanReturned
    /\ \A i \in 1..MaxSuffix :
          (i \in Candidates /\ sc_task[i] = "queued")
             ~> (i \in Candidates /\ sc_task[i] # "queued")
    /\ [](ScanReturned => \A i \in Candidates : sc_task[i] = "yielded")

\* A scan over the whole range with one thread has returned.
C32_Witness ==
    /\ ScanReturned
    /\ sc_cfg.max_workers = 1
    /\ Cardinality(Candidates) = MaxSuffix
    /\ \A i \in Candidates : sc_task[i] = "yielded"

\* The candidates whose probe has returned.
Probed == {i \in Candidates : sc_task[i] \in {"done", "yielded"}}

\* The fate is a timeout fault: TimeoutError, or an OSError whose text says
\* it timed out.
TimeoutFault(fate) ==
    \/ fate.kind = "TimeoutError"
    \/ fate.kind = "OSError" /\ Contains(Lower(fate.text), P_timed_out)

\* C33: a returned probe is online exactly when its connection attempt
\* succeeded, and then carries the latency; a timeout fault gives timeout,
\* a refused connection connection_refused, every other fault error with
\* the captured message; response_time_ms is present only on online
\* results and error_message only on error results.
C33_ProbeClassification ==
    \A i \in Probed :
       LET fate == sc_fate[i]
           r == sc_res[i]
       IN  /\ r.status = "online" <=> fate.kind = "True"
           /\ r.status = "online" => r.response_time_ms = fate.ms
           /\ TimeoutFault(fate) => r.status = "timeout"
           /\ fate.kind \in {"False", "ConnectionRefusedError"} =>
                 r.status = "connection_refused"
           /\ (fate.kind \in {"OSError", "Exception"} /\ ~TimeoutFault(fate)) =>
                 r.status = "error" /\ r.error_message = fate.text
           /\ r.response_time_ms # -1 <=> r.status = "online"
           /\ r.error_message # None <=> r.status = "error"

\* C34: a scan asked of the route with start > end is rejected with 400 and
\* no probe is submitted; one with start <= end that has answered gives
\* 200 with online_count the number of devices, at most count, and count
\* end - start + 1.
C34_RouteRejectsEmptyRange ==
    sc_cfg.route =>
       /\ sc_cfg.start > sc_cfg.end =>
             /\ sc_phase = "rejected"
             /\ sc_out.status = 400
             /\ sc_task = <<>>
             /\ sc_results = <<>>
       /\ sc_cfg.start <= sc_cfg.end => sc_phase # "rejected"
       /\ ScanReturned =>
             /\ sc_out.status = 200
             /\ sc_out.online_count = Len(sc_out.devices)
             /\ sc_out.online_count <= sc_out.count
             /\ sc_out.count = sc_cfg.end - sc_cfg.start + 1

\* The route has rejected a range whose start is behind its end.
C34_Witness ==
    /\ sc_cfg.route
    /\ sc_phase = "rejected"
    /\ sc_cfg.start > sc_cfg.end
    /\ sc_out.status = 400

\* The clients the service has made whose session is up.
LiveSessions == {i \in DOMAIN s_made : s_made[i]}

\* C35: at most one client made by the service is connected, and right
\* after disconnect() the service holds no client and reports not
\* connected.
C35_OneLiveSession ==
    /\ Cardinality(LiveSessions) <= 1
    /\ s_out.op = "disconnect" => s_client = 0 /\ ~ServiceIsConnected

\* C36: the closure is invoked only after the ensure_connected() of the
\* same attempt returned True; one read_with_retry or write_with_retry
\* makes at most retry_count calls of ensure_connected and at most
\* retry_count * retry_count calls of client.connect(); and the operation
\* ends, by returning or raising.
C36_BoundedAttempts ==
    /\ [](op \in RetryOps =>
             /\ pc = "rw_call" => ec_ret
             /\ obs.funcs <= obs.ensures - obs.ensure_fails
             /\ obs.ensures <= retry_count
             /\ obs.connects <= retry_count * retry_count
             /\ obs.ensures <= attempt + 1)
    /\ [][obs'.funcs = obs.funcs + 1 => pc = "rw_call" /\ ec_ret]_vars
    /\ (op \in RetryOps /\ pc # "done") ~> (op \in RetryOps /\ pc = "done")

\* An operation ended after retry_count calls of ensure_connected, each of
\* which made retry_count calls of connect().
C36_Witness ==
    /\ RetryDone
    /\ retry_count = MaxScopeRetry
    /\ obs.ensures = retry_count
    /\ obs.connects = retry_count * retry_count
    /\ obs.funcs = 0

\* C37: a manager with retry_count 0 calls neither connect() nor the
\* closure; its read_with_retry raises IOError and its write_with_retry
\* returns False without raising, both without a call of
\* ensure_connected; and its ensure_connected, when the client is not
\* connected, returns False.
C37_NoAttemptAtZero ==
    retry_count = 0 =>
       /\ obs.connects = 0
       /\ obs.funcs = 0
       /\ obs.sleeps = 0
       /\ op \in RetryOps => pc = "done" /\ obs.ensures = 0
       /\ op = "read_with_retry" =>
             result = NoAttemptError /\ exc = NoAttemptError
       /\ op = "write_with_retry" => result = "False" /\ exc = NoError
       /\ (EnsureDone /\ ~obs.saw_up) => result = "False" /\ ~IsConnected

\* write_with_retry of a manager with retry_count 0 returned False while
\* the client was connected.
C37_Witness ==
    /\ retry_count = 0
    /\ op = "write_with_retry"
    /\ pc = "done"
    /\ result = "False"
    /\ client_up

\* The calls of the client interface that read or write the store.
StoreOps ==
    {"read_holding_registers", "read_coils", "read_state", "write_register",
     "write_coil"}

\* C38: read_holding_registers, read_coils, write_register, write_coil and
\* read_state called on a mock that is not connected raise ConnectionError,
\* run no simulation step and leave every register and coil as it was.
C38_DisconnectedFailsFast ==
    [][(~m_connected /\ m_ops' = m_ops + 1 /\ m_obs'.op \in StoreOps)
          => /\ m_obs'.raised
             /\ m_obs'.steps = 0
             /\ m_regs' = m_regs
             /\ m_coils' = m_coils
             /\ ~m_connected'
      ]_vars

\* A write was refused on a mock that was connected, written to and
\* disconnected before.
C38_Witness ==
    /\ ~m_connected
    /\ m_obs.op = "write_coil"
    /\ m_obs.raised
    /\ m_ops = 2
    /\ m_coils # DefaultCoils

\* The machine is held by the emergency stop.
Halted ==
    /\ m_coils[COIL_E_STOP]
    /\ ~m_coils[COIL_MOTOR_RUNNING]
    /\ m_coils[COIL_MOTOR_STOPPED]
    /\ ~m_coils[COIL_CONVEYOR_RUNNING]
    /\ m_regs[REGISTER_MOTOR_SPEED] = 0
    /\ m_regs[REGISTER_MOTOR_CURRENT] = 0
    /\ m_regs[REGISTER_CONVEYOR_SPEED] = 0

ReadOps == {"read_holding_registers", "read_coils", "read_state"}

\* A call of the given name was made on the connected mock in this step.
Called(name) ==
    /\ m_connected
    /\ m_ops' = m_ops + 1
    /\ m_obs'.op = name

\* C39: trigger_estop() on a connected mock, from any prior state, leaves
\* e_stop true, motor_running false, motor_stopped true, conveyor_running
\* false and motor_speed, motor_current and conveyor_speed 0; reads keep the
\* machine so; release_estop() clears the e_stop coil and changes nothing
\* else.
C39_EmergencyStop ==
    [][/\ Called("trigger_estop") => Halted'
       /\ (Halted /\ \E name \in ReadOps : Called(name)) => Halted'
       /\ Called("release_estop")
             => /\ m_regs' = m_regs
                /\ m_coils' = [m_coils EXCEPT ![COIL_E_STOP] = FALSE]
      ]_vars

\* The stop was triggered on a machine with motor and conveyor running, read
\* and released: the stop is cleared and nothing has restarted.
C39_Witness ==
    /\ m_obs.op = "release_estop"
    /\ ~m_obs.raised
    /\ m_ops = 3
    /\ ~m_coils[COIL_E_STOP]
    /\ ~m_coils[COIL_MOTOR_RUNNING]
    /\ ~m_coils[COIL_CONVEYOR_RUNNING]
    /\ m_regs[REGISTER_MOTOR_SPEED] = 0

====
